---- MODULE Spec2Model ----
(***************************************************************************)
(* Friendly Fire movie tracker: the metadata resolver (OMDBClient), the    *)
(* availability resolver (StreamingAvailabilityClient) and the dataset     *)
(* assembler (JSONGenerator), as state machines.                           *)
(*                                                                         *)
(* Python values.  A str the code takes apart or builds is a sequence of   *)
(* one-character strings, an opaque one a TLA+ string.  An Optional value  *)
(* is a sequence of length 0 (None) or 1 (the value).                      *)
(***************************************************************************)
EXTENDS Integers, Sequences, FiniteSets, TLC

\* ------------------------------------------------------------------ bounds
\* Operations (direct calls, or batch runs) made on one client in a run.
MaxOps == 2
\* Longest titles list handed to search_movies_batch (years: one longer).
MaxTitles == 2
\* Longest imdb_ids list handed to get_streaming_options_batch.
MaxIds == 2
\* Most episode rows handed to generate_movies_json (omdb_data: one longer).
MaxEpisodes == 2

\* ------------------------------------------------------- Python primitives
None == <<>>
Some(x) == <<x>>
IsNone(o) == Len(o) = 0
Val(o) == o[1]

\* Truthiness of an Optional[str]: None and "" are falsy.
TruthyStr(o) == ~IsNone(o) /\ Len(Val(o)) > 0

IsSpace(c) == c = " "
Digits == {"0", "1", "2", "3", "4", "5", "6", "7", "8", "9"}

\* str.isdigit()
isdigit(s) == Len(s) > 0 /\ \A i \in 1..Len(s) : s[i] \in Digits

\* str.split() with no argument: maximal runs of non-whitespace.
RECURSIVE SplitAcc(_, _, _, _)
SplitAcc(s, i, w, acc) ==
    IF i > Len(s)
    THEN (IF Len(w) = 0 THEN acc ELSE Append(acc, w))
    ELSE IF IsSpace(s[i])
         THEN SplitAcc(s, i + 1, <<>>, IF Len(w) = 0 THEN acc ELSE Append(acc, w))
         ELSE SplitAcc(s, i + 1, Append(w, s[i]), acc)

split(s) == SplitAcc(s, 1, <<>>, <<>>)

\* sep.join(words)
RECURSIVE join(_, _)
join(sep, ws) ==
    IF Len(ws) = 0 THEN <<>>
    ELSE IF Len(ws) = 1 THEN ws[1]
    ELSE ws[1] \o sep \o join(sep, Tail(ws))

Min(a, b) == IF a < b THEN a ELSE b

\* --------------------------------------------------------- input universes
Titles == { <<"a", "b">>, <<"a", " ", " ", "b">> }
Years == { None, Some(<<>>), Some(<<"1", "9">>), Some(<<" ">>) }
BatchYears == { None, Some(<<"1", "9">>) }

\* Sequences over S of length 0..n.
SeqsUpTo(S, n) == UNION { [1..m -> S] : m \in 0..n }

\* ================================================================ OMDBClient
VARIABLES
    titles,      \* the titles argument of the run
    years,       \* the years argument of the run: None, or Some(list)
    o_cache,     \* OMDBClient._cache: cache key -> Optional[data]
    o_pc,        \* position inside search_movie: idle | ladder | post
    o_call,      \* search_movie's arguments while it runs
    strategies,  \* search_movie's search_strategies
    o_k,         \* index of the next strategy of the for loop
    o_result,    \* search_movie's local `result`
    o_log,       \* live queries issued by the running search_movie call
    o_cur,       \* the latest search_movie call (running or completed)
    o_prev,      \* the completed search_movie call before it
    b_pc,        \* search_movies_batch: idle | loop | returned | raised
    b_years,     \* the batch's `years` after line 181
    b_idx,       \* 1-based position of the batch loop in zip(titles, years)
    b_results,   \* the batch's `results`
    b_slots,     \* the lookups the running batch has completed
    b_prev,      \* the lookups of the batch run before it
    o_ops,       \* operations started on the client so far
    o_env        \* the answers the OMDB server gives in this run

omdbVars == << titles, years, o_cache, o_pc, o_call, strategies, o_k, o_result,
               o_log, o_cur, o_prev, b_pc, b_years, b_idx, b_results, b_slots,
               b_prev, o_ops, o_env >>

\* ======================================== StreamingAvailabilityClient
VARIABLES
    ids,         \* the imdb_ids argument of the run
    s_cache,     \* StreamingAvailabilityClient._cache: cache key -> result
    s_pc,        \* position inside get_streaming_options: idle | get1 | get2
    s_call,      \* get_streaming_options' arguments while it runs
    s_log,       \* answers to the requests of the latest call, in order
    s_sleeps,    \* seconds slept by the latest call, in order
    s_cur,       \* the latest get_streaming_options call (running or completed)
    s_prev,      \* the completed call before it
    sb_pc,       \* get_streaming_options_batch: idle | loop | returned
    sb_country,  \* the batch's country argument
    sb_idx,      \* 1-based position of the batch loop in imdb_ids
    sb_results,  \* the batch's `results`
    sb_slots,    \* the lookups the running batch has completed
    s_ops        \* operations started on the client so far

streamVars == << ids, s_cache, s_pc, s_call, s_log, s_sleeps, s_cur, s_prev,
                 sb_pc, sb_country, sb_idx, sb_results, sb_slots, s_ops >>

\* ================================================================ JSONGenerator
VARIABLES
    g_rows,      \* episodes_df: the rows, in order
    g_omdb,      \* omdb_data
    g_streaming, \* streaming_data
    g_pc,        \* generate_movies_json: ready | written
    g_out        \* output_data as written to movies.json

genVars == << g_rows, g_omdb, g_streaming, g_pc, g_out >>

\* =========================================================== EpisodeDataCleaner
VARIABLES
    c_raw,       \* raw_episodes handed to clean_episodes
    c_pc,        \* clean_episodes: ready | returned | raised
    c_df,        \* the DataFrame returned, as the sequence of its rows
    n_in,        \* an episode name handed to the normalisation of lines 195-200
    n_pc,        \* ready | once | twice
    n_out        \* the normalised name, normalised once or twice

cleanVars == << c_raw, c_pc, c_df, n_in, n_pc, n_out >>

\* ================================================================ main (pipeline)
VARIABLES
    p_args,      \* the CLI flags: skip_apis, skip_streaming, skip_scraping
    p_file,      \* docs/data/movies.json: [seen, data]; data is None when the
                 \* file is missing, and is fixed when the run first touches it
    p_before,    \* docs/data/movies.json as the run first read it
    p_wrote,     \* the run has written docs/data/movies.json
    p_pc,        \* step1 | step2 | step3 | step4 | step5 | exit
    p_raw,       \* raw_episodes
    p_clean,     \* how clean_friendly_fire_data ended: "" | none | ValueError
    p_df,        \* episodes_df
    p_omdb,      \* omdb_data
    p_streaming, \* streaming_data
    p_lookups,   \* metadata and availability lookups issued so far
    p_exit       \* the exit status: None while running

pipeVars == << p_args, p_file, p_before, p_wrote, p_pc, p_raw, p_clean, p_df,
               p_omdb, p_streaming, p_lookups, p_exit >>

\* ============================================================== RatingMerger
VARIABLES
    m_movies,    \* RatingMerger.movies: the list of movie dicts, changed in place
    m_ratings,   \* RatingMerger.ratings: the rows of the CSV
    m_pc,        \* "idle", "merging", "done", "raised"
    m_idx,       \* position of merge()'s loop over the ratings
    m_matched,   \* merge(): matched
    m_unmatched, \* merge(): unmatched
    m_details,   \* merge(): match_details
    m_stats,     \* what merge() returned: None, or Some(stats)
    m_before,    \* history: the movies when merge() was called
    m_prev,      \* history: the movies before the latest entry was processed
    m_last       \* history: what find_matching_movie returned for that entry

mergeVars == << m_movies, m_ratings, m_pc, m_idx, m_matched, m_unmatched,
               m_details, m_stats, m_before, m_prev, m_last >>

\* ========================================================== MaximumFunScraper
VARIABLES
    x_max_pages, \* MaximumFunScraper.max_pages
    x_pc,        \* "idle", "ready", "fetch", "got", "returned", "raised"
    x_page,      \* scrape_episodes: page
    x_retry,     \* _scrape_page: retry_count of the running call
    x_got,       \* what _scrape_page returned to scrape_episodes
    x_episodes,  \* scrape_episodes: episodes
    x_log,       \* history: the outcome of every attempt on the current page
    x_sleeps     \* history: the retry delays slept on the current page

scrapeVars == << x_max_pages, x_pc, x_page, x_retry, x_got, x_episodes, x_log,
                x_sleeps >>

vars == << omdbVars, streamVars, genVars, cleanVars, pipeVars, mergeVars, scrapeVars >>

\* An empty dict.
EmptyDict == [x \in {} |-> None]

NoCall == [title |-> <<>>, year |-> None, uc |-> FALSE, status |-> "none",
           ret |-> None, nq |-> 0]

NoStreamCall == [id |-> <<>>, country |-> <<>>, uc |-> FALSE, status |-> "none",
                 ret |-> None, nreq |-> 0, last |-> "-"]

\* No OMDBClient in the run.
OmdbIdle ==
    /\ titles = <<>> /\ years = None /\ o_env = {}
    /\ o_cache = EmptyDict /\ o_pc = "idle" /\ o_call = NoCall
    /\ strategies = <<>> /\ o_k = 0 /\ o_result = None /\ o_log = <<>>
    /\ o_cur = NoCall /\ o_prev = NoCall
    /\ b_pc = "idle" /\ b_years = <<>> /\ b_idx = 0 /\ b_results = <<>>
    /\ b_slots = <<>> /\ b_prev = <<>> /\ o_ops = 0

\* No StreamingAvailabilityClient in the run.
StreamIdle ==
    /\ ids = <<>> /\ s_cache = EmptyDict /\ s_pc = "idle" /\ s_call = NoStreamCall
    /\ s_log = <<>> /\ s_sleeps = <<>> /\ s_cur = NoStreamCall /\ s_prev = NoStreamCall
    /\ sb_pc = "idle" /\ sb_country = <<>> /\ sb_idx = 0 /\ sb_results = <<>>
    /\ sb_slots = <<>> /\ s_ops = 0

\* Nothing generated yet.
NoOutput == [total_movies |-> 0, movies |-> <<>>]

\* No JSONGenerator in the run.
GenIdle ==
    /\ g_rows = <<>> /\ g_omdb = <<>> /\ g_streaming = <<>>
    /\ g_pc = "idle" /\ g_out = NoOutput

\* What an OMDBClient step leaves alone.
OmdbFrame == UNCHANGED << streamVars, genVars, cleanVars, pipeVars, mergeVars, scrapeVars >>

\* What a StreamingAvailabilityClient step leaves alone.
StreamFrame == UNCHANGED << omdbVars, genVars, cleanVars, pipeVars, mergeVars, scrapeVars >>

\* What a JSONGenerator step leaves alone.
GenFrame == UNCHANGED << omdbVars, streamVars, cleanVars, pipeVars, mergeVars, scrapeVars >>

\* No EpisodeDataCleaner in the run.
CleanIdle ==
    /\ c_raw = <<>> /\ c_pc = "idle" /\ c_df = <<>>
    /\ n_in = <<>> /\ n_pc = "idle" /\ n_out = <<>>

\* What an EpisodeDataCleaner step leaves alone.
CleanFrame == UNCHANGED << omdbVars, streamVars, genVars, pipeVars, mergeVars, scrapeVars >>

\* The file docs/data/movies.json before the run has touched it.
Unseen == [seen |-> FALSE, data |-> None]

\* No pipeline in the run.
PipeIdle ==
    /\ p_args = [skip_apis |-> FALSE, skip_streaming |-> FALSE, skip_scraping |-> FALSE]
    /\ p_file = Unseen /\ p_before = None /\ p_wrote = FALSE /\ p_pc = "idle"
    /\ p_raw = <<>> /\ p_clean = "" /\ p_df = <<>> /\ p_omdb = <<>>
    /\ p_streaming = <<>> /\ p_lookups = 0 /\ p_exit = None

\* What a pipeline step leaves alone.
PipeFrame == UNCHANGED << omdbVars, streamVars, genVars, cleanVars, mergeVars, scrapeVars >>

\* A score of 0.0.
Zero == [num |-> 0, den |-> 1]

NoFind == [match |-> 0, score |-> Zero]

\* No merge in the run.
MergeIdle ==
    /\ m_movies = <<>> /\ m_ratings = <<>> /\ m_pc = "idle" /\ m_idx = 1
    /\ m_matched = 0 /\ m_unmatched = <<>> /\ m_details = <<>> /\ m_stats = None
    /\ m_before = <<>> /\ m_prev = <<>> /\ m_last = NoFind

\* What a step of merge() leaves alone.
MergeFrame == UNCHANGED << omdbVars, streamVars, genVars, cleanVars, pipeVars, scrapeVars >>

\* No scraper in the run.
ScrapeIdle ==
    /\ x_max_pages = 0 /\ x_pc = "idle" /\ x_page = 0 /\ x_retry = 0
    /\ x_got = <<>> /\ x_episodes = <<>> /\ x_log = <<>> /\ x_sleeps = <<>>

\* What a step of the scraper leaves alone.
ScrapeFrame == UNCHANGED << omdbVars, streamVars, genVars, cleanVars, pipeVars, mergeVars >>

\* What the OMDB server can answer to one GET: a transport or HTTP error
\* ("err"), Response == 'False' ("nf"), a found record without the imdbID key
\* ("noid"), with imdbID == "" ("emptyid"), with imdbID == "t1" ("ok").
OmdbResponses == {"err", "nf", "noid", "emptyid", "ok"}
\* The answers of the batch runs: failed, not found, found.
BatchResponses == {"err", "nf", "ok"}

\* response.json() of an answer to the query (t, y): the record echoes the
\* query's parameters, so that a record tells which query produced it.
OmdbJson(resp, t, y) ==
    [ Response |-> IF resp = "nf" THEN "False" ELSE "True",
      hasId    |-> resp \in {"emptyid", "ok"},
      imdbID   |-> IF resp = "ok" THEN <<"t", "1">> ELSE <<>>,
      t        |-> t,
      y        |-> y ]

\* cache_key = f"{title}:{year or 'no_year'}"
OmdbCacheKey(title, year) ==
    title \o <<":">> \o
    (IF TruthyStr(year) THEN Val(year) ELSE <<"n", "o", "_", "y", "e", "a", "r">>)

\* cleaned_title = ' '.join(title.split())
CleanedTitle(title) == join(<<" ">>, split(title))

\* Mutant: the cleaned title with the year is tried before the year is dropped.
SearchStrategies_CleanedFirst(title, year) ==
    LET cleaned == CleanedTitle(title)
        s1 == << <<title, year>> >>
        s2 == IF cleaned # title THEN Append(s1, <<cleaned, year>>) ELSE s1
        s3 == IF TruthyStr(year) THEN Append(s2, <<title, None>>) ELSE s2
        s4 == IF cleaned # title /\ TruthyStr(year)
              THEN Append(s3, <<cleaned, None>>) ELSE s3
    IN  s4

\* search_strategies as search_movie builds it; a strategy is <<title, year>>.
SearchStrategies(title, year) ==
    LET s1 == << <<title, year>> >>
        s2 == IF TruthyStr(year) THEN Append(s1, <<title, None>>) ELSE s1
        cleaned == CleanedTitle(title)
        s3 == IF cleaned # title THEN Append(s2, <<cleaned, year>>) ELSE s2
        s4 == IF cleaned # title /\ TruthyStr(year)
              THEN Append(s3, <<cleaned, None>>) ELSE s3
    IN  s4

\* The 'y' parameter _query_omdb sends: Some(digits) or None (no parameter);
\* "IndexError" when year is truthy and all whitespace (split()[0] fails).
YearParamFails(year) == TruthyStr(year) /\ Len(split(Val(year))) = 0
YearParam(year) ==
    IF TruthyStr(year) /\ Len(split(Val(year))) > 0 /\ isdigit(split(Val(year))[1])
    THEN Some(split(Val(year))[1])
    ELSE None

\* What _query_omdb makes of the parsed answer: None or the data itself.
QueryResult(data) ==
    IF data.Response = "False" THEN None
    ELSE IF ~data.hasId THEN None
    ELSE Some(data)

\* _query_omdb(title, year) when the server answers resp: the exception it
\* raises ("none": it returns val), whether a request was sent at all, and
\* whether sleep(RATE_LIMIT_DELAY) of line 151 was reached.
QueryOmdb(title, year, resp) ==
    IF YearParamFails(year)
    THEN [exc |-> "IndexError", sent |-> FALSE, val |-> None, slept |-> FALSE]
    ELSE IF resp = "err"
    THEN [exc |-> "RequestException", sent |-> TRUE, val |-> None, slept |-> FALSE]
    ELSE [exc |-> "none", sent |-> TRUE,
          val |-> QueryResult(OmdbJson(resp, title, YearParam(year))),
          slept |-> ~IsNone(QueryResult(OmdbJson(resp, title, YearParam(year))))]

\* Truthiness of `result`: a non-empty dict.
TruthyData(r) == ~IsNone(r)

\* zip(titles, years) has this many pairs.
NPairs == Min(Len(titles), Len(b_years))

\* Mutant: the batch's except branch appends nothing for a failed lookup.
SearchMovieDone_DropFailed(exc, ret, nq) ==
    LET done == [o_cur EXCEPT !.status = IF exc = "none" THEN "returned" ELSE "raised",
                              !.ret = ret, !.nq = nq]
    IN  /\ o_cur' = done
        /\ o_pc' = "idle"
        /\ o_log' = <<>>
        /\ o_result' = None
        /\ strategies' = <<>>
        /\ o_k' = 0
        /\ IF b_pc = "loop"
           THEN /\ b_results' = IF exc = "none" THEN Append(b_results, ret) ELSE b_results
                /\ b_slots' = Append(b_slots, done)
                /\ b_idx' = b_idx + 1
           ELSE UNCHANGED << b_results, b_slots, b_idx >>

\* search_movie is entered from search_movies_batch.
InBatch == b_pc = "loop"

\* search_movie completes: it returns ret (exc = "none") or raises exc, after
\* nq live queries.  In a batch the loop body appends the slot (lines 191-196)
\* and moves on.
SearchMovieDone(exc, ret, nq) ==
    LET done == [o_cur EXCEPT !.status = IF exc = "none" THEN "returned" ELSE "raised",
                              !.ret = ret, !.nq = nq]
    IN  /\ o_cur' = done
        /\ o_pc' = "idle"
        /\ o_log' = <<>>
        /\ o_result' = None
        /\ strategies' = <<>>
        /\ o_k' = 0
        /\ IF InBatch
           THEN /\ b_results' = Append(b_results, IF exc = "none" THEN ret ELSE None)
                /\ b_slots' = Append(b_slots, done)
                /\ b_idx' = b_idx + 1
           ELSE UNCHANGED << b_results, b_slots, b_idx >>

\* search_movie(title, year, use_cache), lines 65-87: the cache check, then
\* the strategies.
SearchMovieEnter(title, year, uc) ==
    LET key == OmdbCacheKey(title, year)
        call == [title |-> title, year |-> year, uc |-> uc, status |-> "running",
                 ret |-> None, nq |-> 0]
    IN  /\ o_prev' = o_cur
        /\ o_call' = call
        /\ IF uc /\ key \in DOMAIN o_cache
           THEN /\ o_cur' = [call EXCEPT !.status = "returned", !.ret = o_cache[key]]
                /\ IF InBatch
                   THEN /\ b_results' = Append(b_results, o_cache[key])
                        /\ b_slots' = Append(b_slots, o_cur')
                        /\ b_idx' = b_idx + 1
                   ELSE UNCHANGED << b_results, b_slots, b_idx >>
                /\ UNCHANGED << o_pc, strategies, o_k, o_result, o_log >>
           ELSE /\ o_cur' = call
                /\ o_pc' = "ladder"
                /\ strategies' = SearchStrategies(title, year)
                /\ o_k' = 1
                /\ o_result' = None
                /\ o_log' = <<>>
                /\ UNCHANGED << b_results, b_slots, b_idx >>
        /\ UNCHANGED o_cache

\* A direct call of search_movie on the run's pair.
SearchMovie ==
    /\ b_pc = "idle" /\ o_pc = "idle" /\ o_ops < MaxOps
    /\ Len(titles) = 1 /\ ~IsNone(years)
    /\ \E uc \in BOOLEAN : SearchMovieEnter(titles[1], Val(years)[1], uc)
    /\ o_ops' = o_ops + 1
    /\ OmdbFrame
    /\ UNCHANGED << o_env, titles, years, b_pc, b_years, b_prev >>

\* One iteration of search_movie's for loop (lines 90-96): one _query_omdb.
QueryStep ==
    /\ o_pc = "ladder"
    /\ \E resp \in o_env :
         LET st == strategies[o_k]
             q == QueryOmdb(st[1], st[2], resp)
             log == IF q.sent
                    THEN Append(o_log, [t |-> st[1], y |-> st[2], resp |-> resp,
                                        res |-> q.val, slept |-> q.slept])
                    ELSE o_log
         IN  IF q.exc # "none"
             THEN /\ SearchMovieDone(q.exc, None, Len(log))
                  /\ UNCHANGED o_call
             ELSE /\ o_log' = log
                  /\ o_result' = q.val
                  /\ IF TruthyData(q.val) \/ o_k = Len(strategies)
                     THEN o_pc' = "post" /\ o_k' = o_k
                     ELSE o_pc' = "ladder" /\ o_k' = o_k + 1
                  /\ UNCHANGED << o_call, strategies, o_cur, b_results, b_slots, b_idx >>
    /\ OmdbFrame
    /\ UNCHANGED << o_env, titles, years, o_cache, o_prev, b_pc, b_years, b_prev, o_ops >>

\* Mutant: the result is returned without being cached.
StoreAndReturn_NoStore ==
    /\ o_pc = "post"
    /\ o_cache' = o_cache
    /\ SearchMovieDone("none", o_result, Len(o_log))
    /\ OmdbFrame
    /\ UNCHANGED << o_env, titles, years, o_call, o_prev, b_pc, b_years, b_prev, o_ops >>

\* Mutant: only a found record is cached, a NotFound is not.
StoreAndReturn_SkipNone ==
    /\ o_pc = "post"
    /\ o_cache' = IF TruthyData(o_result)
                  THEN (OmdbCacheKey(o_call.title, o_call.year) :> o_result) @@ o_cache
                  ELSE o_cache
    /\ SearchMovieDone("none", o_result, Len(o_log))
    /\ OmdbFrame
    /\ UNCHANGED << o_env, titles, years, o_call, o_prev, b_pc, b_years, b_prev, o_ops >>

\* search_movie lines 98-104: cache the result (even if None) and return it.
StoreAndReturn ==
    /\ o_pc = "post"
    /\ o_cache' = (OmdbCacheKey(o_call.title, o_call.year) :> o_result) @@ o_cache
    /\ SearchMovieDone("none", o_result, Len(o_log))
    /\ OmdbFrame
    /\ UNCHANGED << o_env, titles, years, o_call, o_prev, b_pc, b_years, b_prev, o_ops >>

\* search_movies_batch lines 177-186: the length check and the defaults.
BatchStart ==
    /\ b_pc \in {"idle", "returned", "raised"} /\ o_pc = "idle" /\ o_ops < MaxOps
    /\ o_ops' = o_ops + 1
    /\ b_prev' = b_slots
    /\ b_slots' = <<>>
    /\ b_results' = <<>>
    /\ b_idx' = 1
    /\ IF ~IsNone(years) /\ Len(Val(years)) > 0 /\ Len(Val(years)) # Len(titles)
       THEN b_pc' = "raised" /\ b_years' = <<>>
       ELSE /\ b_pc' = "loop"
            /\ b_years' = IF IsNone(years) THEN [i \in 1..Len(titles) |-> None]
                          ELSE Val(years)
    /\ OmdbFrame
    /\ UNCHANGED << o_env, titles, years, o_cache, o_pc, o_call, strategies, o_k, o_result,
                    o_log, o_cur, o_prev >>

\* The batch loop takes the next pair of zip(titles, years), lines 188-192.
BatchItem ==
    /\ b_pc = "loop" /\ o_pc = "idle" /\ b_idx <= NPairs
    /\ SearchMovieEnter(titles[b_idx], b_years[b_idx], TRUE)
    /\ OmdbFrame
    /\ UNCHANGED << o_env, titles, years, b_pc, b_years, b_prev, o_ops >>

\* The loop is over: lines 198-201.
BatchReturn ==
    /\ b_pc = "loop" /\ o_pc = "idle" /\ b_idx > NPairs
    /\ b_pc' = "returned"
    /\ OmdbFrame
    /\ UNCHANGED << o_env, titles, years, o_cache, o_pc, o_call, strategies, o_k, o_result,
                    o_log, o_cur, o_prev, b_years, b_idx, b_results, b_slots,
                    b_prev, o_ops >>

OmdbInitCommon ==
    /\ o_cache = EmptyDict
    /\ o_pc = "idle"
    /\ o_call = NoCall
    /\ strategies = <<>>
    /\ o_k = 0
    /\ o_result = None
    /\ o_log = <<>>
    /\ o_cur = NoCall
    /\ o_prev = NoCall
    /\ b_pc = "idle"
    /\ b_years = <<>>
    /\ b_idx = 0
    /\ b_results = <<>>
    /\ b_slots = <<>>
    /\ b_prev = <<>>
    /\ o_ops = 0

\* A client on which search_movie is called repeatedly with one pair.
InitSearch ==
    /\ titles \in { <<t>> : t \in Titles }
    /\ years \in { Some(<<y>>) : y \in Years }
    /\ o_env = OmdbResponses
    /\ OmdbInitCommon
    /\ StreamIdle
    /\ GenIdle
    /\ CleanIdle
    /\ PipeIdle
    /\ MergeIdle
    /\ ScrapeIdle

NextSearch == SearchMovie \/ QueryStep \/ StoreAndReturn

SpecSearch == InitSearch /\ [][NextSearch]_vars

\* A client on which search_movies_batch runs repeatedly over one input.
InitBatch ==
    /\ titles \in SeqsUpTo(Titles, MaxTitles)
    /\ years \in {None} \cup { Some(ys) : ys \in SeqsUpTo(BatchYears, MaxTitles + 1) }
    /\ o_env = BatchResponses
    /\ OmdbInitCommon
    /\ StreamIdle
    /\ GenIdle
    /\ CleanIdle
    /\ PipeIdle
    /\ MergeIdle
    /\ ScrapeIdle

NextBatch == BatchStart \/ BatchItem \/ QueryStep \/ StoreAndReturn \/ BatchReturn

SpecBatch == InitBatch /\ [][NextBatch]_vars

\* ------------------------------------------------------ claims: OMDBClient

\* The ladder of a call with a non-empty year, as the specification words it.
ClaimedLadder(title, year) ==
    << <<title, year>>, <<title, None>> >> \o
    (IF CleanedTitle(title) # title
     THEN << <<CleanedTitle(title), year>>, <<CleanedTitle(title), None>> >>
     ELSE <<>>)

\* C1: a search_movie call with a non-empty year that misses the cache issues
\* its live queries in the order (title, year), (title, no year), (cleaned
\* title, year), (cleaned title, no year), the last two only when cleaning
\* changed the title; no query follows a successful one, the call's result is
\* the record of the first successful query, and NotFound is returned only
\* after the whole ladder failed.
C1_LadderOrder ==
    /\ (o_pc \in {"ladder", "post"} /\ TruthyStr(o_call.year)) =>
         LET L == ClaimedLadder(o_call.title, o_call.year)
             n == Len(o_log)
         IN  /\ n <= Len(L)
             /\ \A i \in 1..n : <<o_log[i].t, o_log[i].y>> = L[i]
             /\ \A i \in 1..(n - 1) : IsNone(o_log[i].res)
             /\ o_pc = "ladder" => (n = o_k - 1 /\ \A i \in 1..n : IsNone(o_log[i].res))
             /\ o_pc = "post" =>
                  /\ n >= 1
                  /\ o_result = o_log[n].res
                  /\ IsNone(o_result) => n = Len(L)
    /\ (o_cur.status = "returned" /\ o_cur.nq > 0 /\ TruthyStr(o_cur.year)) =>
         LET L == ClaimedLadder(o_cur.title, o_cur.year)
         IN  /\ o_cur.nq <= Len(L)
             /\ IsNone(o_cur.ret) => o_cur.nq = Len(L)
             /\ ~IsNone(o_cur.ret) =>
                  /\ Val(o_cur.ret).t = L[o_cur.nq][1]
                  /\ Val(o_cur.ret).y = YearParam(L[o_cur.nq][2])

\* C1 witness: the third query of a four-step ladder is the first to succeed
\* and the loop has ended without a fourth.
C1_Witness ==
    /\ o_pc = "post" /\ Len(strategies) = 4 /\ Len(o_log) = 3
    /\ ~IsNone(o_log[3].res) /\ IsNone(o_log[1].res) /\ IsNone(o_log[2].res)

\* Two sequential search_movie calls with the same pair, both with caching.
SamePairTwice ==
    /\ o_prev.status \in {"returned", "raised"}
    /\ o_cur.status # "none"
    /\ o_cur.title = o_prev.title /\ o_cur.year = o_prev.year
    /\ o_prev.uc /\ o_cur.uc

\* The second call answers from the cache: no live query, the same output.
SecondFromCache ==
    /\ o_pc = "idle" /\ Len(o_log) = 0 /\ o_cur.nq = 0
    /\ o_cur.status = o_prev.status
    /\ o_cur.ret = o_prev.ret

C6_SuccessNeedsId ==
    /\ \A i \in 1..Len(o_log) :
         ~IsNone(o_log[i].res) =>
            /\ Val(o_log[i].res).Response = "True"
            /\ Val(o_log[i].res).hasId
            /\ Len(Val(o_log[i].res).imdbID) > 0
    /\ (o_cur.status = "returned" /\ ~IsNone(o_cur.ret)) =>
         Len(Val(o_cur.ret).imdbID) > 0

\* C24: Exactly one rate-limiting pause follows every live query of the
\* running search_movie call, whether it found a record or reported not
\* found; a call answered from the cache issues no query and pauses never.
C24_PauseAfterQuery ==
    /\ \A i \in 1..Len(o_log) : o_log[i].slept
    /\ (o_cur.status = "returned" /\ o_cur.nq = 0) => Len(o_log) = 0

\* The years list the batch zips with titles: element i, None without a list.
YearAt(i) == IF IsNone(years) THEN None ELSE Val(years)[i]
YearsLen == IF IsNone(years) THEN Len(titles) ELSE Len(Val(years))

\* C2: whenever search_movies_batch returns, the returned list has exactly
\* len(titles) entries.
C2_OutputLength == b_pc = "returned" => Len(b_results) = Len(titles)

\* C3: entry i of the batch output is the result of the lookup of pair i of
\* zip(titles, years), None when that lookup raised; a raising lookup does not
\* make the batch raise, and every pair after it is still looked up, in order.
C3_Positional ==
    /\ b_pc \in {"loop", "returned"} =>
         /\ Len(b_slots) = Len(b_results)
         /\ \A i \in 1..Len(b_results) :
              /\ b_slots[i].title = titles[i]
              /\ b_slots[i].year = YearAt(i)
              /\ b_slots[i].status \in {"returned", "raised"}
              /\ b_results[i] = IF b_slots[i].status = "raised" THEN None
                                ELSE b_slots[i].ret
         /\ (b_pc = "loop" /\ o_pc = "idle") => b_idx = Len(b_results) + 1
         /\ (b_pc = "loop" /\ o_pc # "idle") =>
              /\ b_idx = Len(b_results) + 1
              /\ o_call.title = titles[b_idx] /\ o_call.year = YearAt(b_idx)
         /\ b_pc = "returned" => Len(b_results) = Min(Len(titles), YearsLen)
    /\ b_pc = "raised" => (Len(b_slots) = 0 /\ Len(b_results) = 0)

\* C3 witness: the first lookup of a batch raised, the second still queried
\* live, and the batch returned both slots.
C3_Witness ==
    /\ b_pc = "returned" /\ Len(b_results) = 2
    /\ b_slots[1].status = "raised" /\ IsNone(b_results[1])
    /\ b_slots[2].nq > 0 /\ ~IsNone(b_results[2])

SlotKey(slot) == OmdbCacheKey(slot.title, slot.year)

Ids == { <<"t", "1">>, <<"t", "2">> }
Countries == { <<"u", "s">>, <<"g", "b">> }

\* sleep(5) before the retry; RATE_LIMIT_DELAY after a parsed answer.
RetryPause == 5
StreamRateDelay == 1

\* What the server can answer to one GET: no answer at all ("transport": the
\* session raises), status 429, status 500, or status 200 with a body.
StreamResponses == {"transport", "429", "500", "ok_full", "ok_bare", "ok_bad"}

StatusCode(resp) ==
    CASE resp = "429" -> 429
      [] resp = "500" -> 500
      [] OTHER -> 200

\* The body is JSON of a shape _parse_streaming_data cannot walk (it raises an
\* exception that is no RequestException).
BadShape(resp) == resp = "ok_bad"

\* response.json(): title, year, and streamingInfo as country -> ordered
\* (service, offers) pairs.  A missing key is None.
StreamJson(resp) ==
    IF resp = "ok_full"
    THEN [ title |-> Some("Top Gun"), year |-> Some(1986),
           streamingInfo |-> Some(
             <<"u", "s">> :>
               << << "netflix",
                     << [type |-> Some("subscription"), quality |-> Some("hd"),
                         link |-> Some("n"), price |-> None] >> >>,
                  << "prime",
                     << [type |-> None, quality |-> None, link |-> None,
                         price |-> Some(Some(<<"3", ".", "9", "9">>))],
                        [type |-> Some("buy"), quality |-> Some("hd"),
                         link |-> Some("p"), price |-> Some(None)] >> >> >>) ]
    ELSE [ title |-> None, year |-> None, streamingInfo |-> None ]

\* One offer of a service, as lines 161-170 simplify it.
StreamingOption(service, option) ==
    [ service |-> service,
      type    |-> IF IsNone(option.type) THEN "subscription" ELSE Val(option.type),
      quality |-> IF IsNone(option.quality) THEN "sd" ELSE Val(option.quality),
      link    |-> IF IsNone(option.link) THEN "" ELSE Val(option.link),
      price   |-> IF IsNone(option.price) THEN None
                  ELSE Some(<<"$">> \o (IF IsNone(Val(option.price))
                                        THEN <<"N", "/", "A">>
                                        ELSE Val(Val(option.price)))) ]

\* The options of every service, in the order of streaming_info.items().
RECURSIVE ServiceOptions(_)
ServiceOptions(services) ==
    IF Len(services) = 0 THEN <<>>
    ELSE [ i \in 1..Len(services[1][2]) |->
             StreamingOption(services[1][1], services[1][2][i]) ]
         \o ServiceOptions(Tail(services))

\* _parse_streaming_data(data, imdb_id, country)
ParseStreamingData(data, imdb_id, country) ==
    LET info == IF IsNone(data.streamingInfo) THEN EmptyDict ELSE Val(data.streamingInfo)
        streaming_info == IF country \in DOMAIN info THEN info[country] ELSE <<>>
    IN  [ imdb_id |-> imdb_id,
          title |-> IF IsNone(data.title) THEN "" ELSE Val(data.title),
          year |-> data.year,
          streaming_options |-> ServiceOptions(streaming_info) ]

\* cache_key = f"{imdb_id}:{country}"
StreamCacheKey(imdb_id, country) == imdb_id \o <<":">> \o country

\* get_streaming_options is entered from get_streaming_options_batch.
InStreamBatch == sb_pc = "loop"

\* Mutant: the batch's except branch appends nothing for a lookup that raised.
StreamDone_DropRaised(exc, ret, log, sleeps, cache) ==
    LET done == [s_cur EXCEPT !.status = IF exc = "none" THEN "returned" ELSE "raised",
                              !.ret = ret, !.nreq = Len(log),
                              !.last = log[Len(log)]]
    IN  /\ s_cur' = done
        /\ s_pc' = "idle"
        /\ s_log' = log
        /\ s_sleeps' = sleeps
        /\ s_cache' = cache
        /\ IF sb_pc = "loop"
           THEN /\ sb_results' = IF exc = "none" THEN Append(sb_results, ret)
                                 ELSE sb_results
                /\ sb_slots' = Append(sb_slots, done)
                /\ sb_idx' = sb_idx + 1
           ELSE UNCHANGED << sb_results, sb_slots, sb_idx >>

\* get_streaming_options completes after the requests in log: it returns ret
\* (exc = "none") or raises exc.  In a batch the loop body appends the slot
\* (lines 204-209) and moves on.
StreamDone(exc, ret, log, sleeps, cache) ==
    LET done == [s_cur EXCEPT !.status = IF exc = "none" THEN "returned" ELSE "raised",
                              !.ret = ret, !.nreq = Len(log),
                              !.last = log[Len(log)]]
    IN  /\ s_cur' = done
        /\ s_pc' = "idle"
        /\ s_log' = log
        /\ s_sleeps' = sleeps
        /\ s_cache' = cache
        /\ IF InStreamBatch
           THEN /\ sb_results' = Append(sb_results, IF exc = "none" THEN ret ELSE None)
                /\ sb_slots' = Append(sb_slots, done)
                /\ sb_idx' = sb_idx + 1
           ELSE UNCHANGED << sb_results, sb_slots, sb_idx >>

\* Mutant: the parsed result is returned without being cached.
HandleResponse_NoCache(resp, log, sleeps) ==
    IF StatusCode(resp) >= 400
    THEN StreamDone("none", None, log, sleeps, s_cache)
    ELSE IF BadShape(resp)
    THEN StreamDone("AttributeError", None, log, sleeps, s_cache)
    ELSE LET result == ParseStreamingData(StreamJson(resp), s_call.id, s_call.country)
         IN  StreamDone("none", Some(result), log, Append(sleeps, StreamRateDelay),
                        s_cache)

\* Lines 117-129 on the answer resp: raise_for_status (caught at line 131:
\* None), json, parse, cache, pause, return.
HandleResponse(resp, log, sleeps) ==
    IF StatusCode(resp) >= 400
    THEN StreamDone("none", None, log, sleeps, s_cache)
    ELSE IF BadShape(resp)
    THEN StreamDone("AttributeError", None, log, sleeps, s_cache)
    ELSE LET result == ParseStreamingData(StreamJson(resp), s_call.id, s_call.country)
         IN  StreamDone("none", Some(result), log, Append(sleeps, StreamRateDelay),
                        (StreamCacheKey(s_call.id, s_call.country) :> Some(result))
                          @@ s_cache)

\* get_streaming_options(imdb_id, country, use_cache), lines 92-97: the cache
\* check.
StreamEnter(imdb_id, country, uc) ==
    LET key == StreamCacheKey(imdb_id, country)
        call == [id |-> imdb_id, country |-> country, uc |-> uc, status |-> "running",
                 ret |-> None, nreq |-> 0, last |-> "-"]
    IN  /\ s_prev' = s_cur
        /\ s_call' = call
        /\ s_log' = <<>>
        /\ s_sleeps' = <<>>
        /\ IF uc /\ key \in DOMAIN s_cache
           THEN /\ s_cur' = [call EXCEPT !.status = "returned", !.ret = s_cache[key],
                                         !.last = "hit"]
                /\ IF InStreamBatch
                   THEN /\ sb_results' = Append(sb_results, s_cache[key])
                        /\ sb_slots' = Append(sb_slots, s_cur')
                        /\ sb_idx' = sb_idx + 1
                   ELSE UNCHANGED << sb_results, sb_slots, sb_idx >>
                /\ UNCHANGED s_pc
           ELSE /\ s_cur' = call
                /\ s_pc' = "get1"
                /\ UNCHANGED << sb_results, sb_slots, sb_idx >>
        /\ UNCHANGED s_cache

\* A direct call of get_streaming_options on the run's identifier.
GetStreamingOptions ==
    /\ sb_pc = "idle" /\ s_pc = "idle" /\ s_ops < MaxOps
    /\ Len(ids) = 1
    /\ \E country \in Countries, uc \in BOOLEAN : StreamEnter(ids[1], country, uc)
    /\ s_ops' = s_ops + 1
    /\ StreamFrame
    /\ UNCHANGED << ids, sb_pc, sb_country >>

\* Mutant: a 429 is handled like any other answer, without a retry.
FirstGet_NoRetry ==
    /\ s_pc = "get1"
    /\ \E resp \in StreamResponses :
         IF resp = "transport"
         THEN StreamDone("none", None, <<resp>>, <<>>, s_cache)
         ELSE HandleResponse(resp, <<resp>>, <<>>)
    /\ StreamFrame
    /\ UNCHANGED << ids, s_call, s_prev, sb_pc, sb_country, s_ops >>

\* The first session.get (line 109) and, unless the status is 429, the rest of
\* the call; on 429 the call sleeps 5 seconds and goes on to the retry.
FirstGet ==
    /\ s_pc = "get1"
    /\ \E resp \in StreamResponses :
         IF resp = "transport"
         THEN StreamDone("none", None, <<resp>>, <<>>, s_cache)
         ELSE IF StatusCode(resp) = 429
         THEN /\ s_pc' = "get2"
              /\ s_log' = <<resp>>
              /\ s_sleeps' = <<RetryPause>>
              /\ UNCHANGED << s_cache, s_cur, sb_results, sb_slots, sb_idx >>
         ELSE HandleResponse(resp, <<resp>>, <<>>)
    /\ StreamFrame
    /\ UNCHANGED << ids, s_call, s_prev, sb_pc, sb_country, s_ops >>

\* The second session.get (line 115) and the rest of the call.
RetryGet ==
    /\ s_pc = "get2"
    /\ \E resp \in StreamResponses :
         IF resp = "transport"
         THEN StreamDone("none", None, Append(s_log, resp), s_sleeps, s_cache)
         ELSE HandleResponse(resp, Append(s_log, resp), s_sleeps)
    /\ StreamFrame
    /\ UNCHANGED << ids, s_call, s_prev, sb_pc, sb_country, s_ops >>

\* get_streaming_options_batch lines 196-199.
StreamBatchStart ==
    /\ sb_pc \in {"idle", "returned"} /\ s_pc = "idle" /\ s_ops < MaxOps
    /\ s_ops' = s_ops + 1
    /\ \E country \in Countries : sb_country' = country
    /\ sb_pc' = "loop"
    /\ sb_idx' = 1
    /\ sb_results' = <<>>
    /\ sb_slots' = <<>>
    /\ StreamFrame
    /\ UNCHANGED << ids, s_cache, s_pc, s_call, s_log, s_sleeps, s_cur, s_prev >>

\* The batch loop takes the next identifier, lines 201-205.
StreamBatchItem ==
    /\ sb_pc = "loop" /\ s_pc = "idle" /\ sb_idx <= Len(ids)
    /\ StreamEnter(ids[sb_idx], sb_country, TRUE)
    /\ StreamFrame
    /\ UNCHANGED << ids, sb_pc, sb_country, s_ops >>

\* The loop is over: lines 211-214.
StreamBatchReturn ==
    /\ sb_pc = "loop" /\ s_pc = "idle" /\ sb_idx > Len(ids)
    /\ sb_pc' = "returned"
    /\ StreamFrame
    /\ UNCHANGED << ids, s_cache, s_pc, s_call, s_log, s_sleeps, s_cur, s_prev,
                    sb_country, sb_idx, sb_results, sb_slots, s_ops >>

StreamInitCommon ==
    /\ s_cache = EmptyDict /\ s_pc = "idle" /\ s_call = NoStreamCall
    /\ s_log = <<>> /\ s_sleeps = <<>> /\ s_cur = NoStreamCall /\ s_prev = NoStreamCall
    /\ sb_pc = "idle" /\ sb_country = <<>> /\ sb_idx = 0 /\ sb_results = <<>>
    /\ sb_slots = <<>> /\ s_ops = 0

\* A client on which get_streaming_options is called repeatedly for one id.
InitAvail ==
    /\ ids \in { <<i>> : i \in Ids }
    /\ StreamInitCommon
    /\ OmdbIdle
    /\ GenIdle
    /\ CleanIdle
    /\ PipeIdle
    /\ MergeIdle
    /\ ScrapeIdle

NextAvail == GetStreamingOptions \/ FirstGet \/ RetryGet

SpecAvail == InitAvail /\ [][NextAvail]_vars

\* A client on which get_streaming_options_batch runs repeatedly over one list.
InitAvailBatch ==
    /\ ids \in SeqsUpTo(Ids, MaxIds)
    /\ StreamInitCommon
    /\ OmdbIdle
    /\ GenIdle
    /\ CleanIdle
    /\ PipeIdle
    /\ MergeIdle
    /\ ScrapeIdle

NextAvailBatch ==
    StreamBatchStart \/ StreamBatchItem \/ FirstGet \/ RetryGet \/ StreamBatchReturn

SpecAvailBatch == InitAvailBatch /\ [][NextAvailBatch]_vars

\* --------------------------------- claims: StreamingAvailabilityClient

\* The request failed: no answer, or a status raise_for_status rejects.
RequestFailed(resp) == resp = "transport" \/ StatusCode(resp) >= 400

\* C7: one get_streaming_options call issues at most two requests and the
\* second only after a 429, before which it pauses; a call whose first answer
\* is 429 issues exactly one more request; if that one fails too the call
\* returns NotFound.
C7_RetryOnce ==
    /\ Len(s_log) <= 2
    /\ Len(s_log) = 2 => (StatusCode(s_log[1]) = 429 /\ s_log[1] # "transport"
                          /\ Len(s_sleeps) >= 1 /\ s_sleeps[1] = RetryPause)
    /\ s_pc = "get1" => Len(s_log) = 0
    /\ s_pc = "get2" => (Len(s_log) = 1 /\ s_log[1] = "429")
    /\ (s_pc = "idle" /\ s_cur.status # "none") =>
         /\ s_cur.nreq = Len(s_log)
         /\ (Len(s_log) >= 1 /\ s_log[1] = "429") => Len(s_log) = 2
         /\ (Len(s_log) = 2 /\ RequestFailed(s_log[2])) =>
              (s_cur.status = "returned" /\ IsNone(s_cur.ret))

\* C7 witness: the first answer was 429, the retry was answered 429 again, and
\* the call returned NotFound after two requests.
C7_Witness ==
    /\ s_pc = "idle" /\ s_log = <<"429", "429">>
    /\ s_cur.status = "returned" /\ IsNone(s_cur.ret) /\ s_cur.nreq = 2

\* C8: get_streaming_options_batch returns one entry per identifier, in input
\* order: entry i is the result of the lookup of imdb_ids[i], None when its
\* request failed or the lookup raised, and the loop goes on to the next.
C8_BatchIsolation ==
    /\ sb_pc \in {"loop", "returned"} =>
         /\ Len(sb_slots) = Len(sb_results)
         /\ Len(sb_results) <= Len(ids)
         /\ \A i \in 1..Len(sb_results) :
              /\ sb_slots[i].id = ids[i]
              /\ sb_slots[i].country = sb_country
              /\ sb_slots[i].status \in {"returned", "raised"}
              /\ sb_results[i] = IF sb_slots[i].status = "raised" THEN None
                                 ELSE sb_slots[i].ret
              /\ (sb_slots[i].last # "hit" /\ RequestFailed(sb_slots[i].last)) =>
                   (sb_slots[i].status = "returned" /\ IsNone(sb_results[i]))
         /\ sb_pc = "loop" => sb_idx = Len(sb_results) + 1
         /\ (sb_pc = "loop" /\ s_pc # "idle") => s_call.id = ids[sb_idx]
         /\ sb_pc = "returned" => Len(sb_results) = Len(ids)

\* C8 witness: the request for the first identifier met a transport failure,
\* the second identifier was still queried and the batch returned both slots.
C8_Witness ==
    /\ sb_pc = "returned" /\ Len(sb_results) = 2
    /\ sb_slots[1].last = "transport" /\ IsNone(sb_results[1])
    /\ sb_slots[2].nreq > 0 /\ ~IsNone(sb_results[2])

\* Two sequential get_streaming_options calls with the same pair, the second
\* with caching.
SameIdTwice ==
    /\ s_prev.status = "returned"
    /\ s_cur.status # "none"
    /\ s_cur.id = s_prev.id /\ s_cur.country = s_prev.country
    /\ s_cur.uc

\* The repeated call returned the same value without a request.
RepeatFromCache ==
    /\ s_pc = "idle" /\ s_cur.status = "returned" /\ s_cur.nreq = 0
    /\ Len(s_log) = 0 /\ s_cur.ret = s_prev.ret

KeyTitles == << <<"a">>, <<"a", ":", "b">> >>
KeyYears == << None, Some(<<"n", "o", "_", "y", "e", "a", "r">>),
               Some(<<"c">>), Some(<<"b", ":", "c">>) >>
KeyIds == << <<"t", "1">>, <<"t", "1", ":", "u">> >>
KeyCountries == { <<"s">>, <<"u", ":", "s">> }

\* A direct call of search_movie on any title and year of the run.
SearchMovieOf ==
    /\ b_pc = "idle" /\ o_pc = "idle" /\ o_ops < MaxOps
    /\ Len(titles) > 1 /\ ~IsNone(years)
    /\ \E i \in 1..Len(titles), j \in 1..Len(Val(years)), uc \in BOOLEAN :
         SearchMovieEnter(titles[i], Val(years)[j], uc)
    /\ o_ops' = o_ops + 1
    /\ OmdbFrame
    /\ UNCHANGED << o_env, titles, years, b_pc, b_years, b_prev >>

\* A direct call of get_streaming_options on any identifier of the run.
GetStreamingOptionsOf ==
    /\ sb_pc = "idle" /\ s_pc = "idle" /\ s_ops < MaxOps
    /\ Len(ids) > 1
    /\ \E i \in 1..Len(ids), country \in KeyCountries, uc \in BOOLEAN :
         StreamEnter(ids[i], country, uc)
    /\ s_ops' = s_ops + 1
    /\ StreamFrame
    /\ UNCHANGED << ids, sb_pc, sb_country >>

\* One resolver client, an OMDBClient or a StreamingAvailabilityClient, called
\* repeatedly with arguments of the cache-key runs.
InitKeys ==
    /\ \/ /\ titles = KeyTitles
          /\ years = Some(KeyYears)
          /\ o_env = OmdbResponses
          /\ OmdbInitCommon
          /\ StreamIdle
       \/ /\ ids = KeyIds
          /\ StreamInitCommon
          /\ OmdbIdle
    /\ GenIdle
    /\ CleanIdle
    /\ PipeIdle
    /\ MergeIdle
    /\ ScrapeIdle

NextKeys ==
    \/ SearchMovieOf \/ QueryStep \/ StoreAndReturn
    \/ GetStreamingOptionsOf \/ FirstGet \/ RetryGet

SpecKeys == InitKeys /\ [][NextKeys]_vars

\* The client's second call was answered from the cache: the entry it returned
\* is the one its first call stored.
OmdbSecondHit ==
    /\ o_ops = 2 /\ o_pc = "idle" /\ o_prev.status = "returned"
    /\ o_cur.uc /\ o_cur.status = "returned" /\ o_cur.nq = 0
StreamSecondHit ==
    /\ s_ops = 2 /\ s_pc = "idle" /\ s_prev.status = "returned"
    /\ s_cur.uc /\ s_cur.status = "returned" /\ s_cur.last = "hit"

\* C29: a cache never answers a lookup with a result stored for a different
\* key: a search_movie call answered from the cache has the (title, year) of
\* the call that stored the entry, and a get_streaming_options call answered
\* from the cache has the (imdb_id, country) of the call that stored it, also
\* for strings that contain ':' or are 'no_year'.
C29_NoKeyCollision ==
    /\ OmdbSecondHit => (o_cur.title = o_prev.title /\ o_cur.year = o_prev.year)
    /\ StreamSecondHit => (s_cur.id = s_prev.id /\ s_cur.country = s_prev.country)

\* ================================================ JSONGenerator: the model
\* A dict is a function from its keys to Optional values; a JSON null is None.
\* d.get(key) and d.get(key, default):
Get(d, key) == IF key \in DOMAIN d THEN d[key] ELSE None
GetOr(d, key, default) == IF key \in DOMAIN d THEN d[key] ELSE default

\* Truthiness of an Optional[dict]: None and {} are falsy.
TruthyDict(o) == ~IsNone(o) /\ DOMAIN Val(o) # {}

\* Truthiness of an Optional[list]: None and [] are falsy.
TruthyList(o) == ~IsNone(o) /\ Len(Val(o)) > 0

\* The rows of episodes_df: number (NaN/None when unknown), episode, year,
\* episode_url.
Rows ==
    { [number |-> Some("12"), episode |-> Some("Alien"), year |-> Some("1979"),
       episode_url |-> Some("u12")],
      [number |-> None, episode |-> Some("Predator"), year |-> Some("1987"),
       episode_url |-> None] }

\* The entries of omdb_data.
OmdbInfos ==
    { None,
      Some([imdbID |-> Some(<<"t", "1">>), Title |-> Some("Alien (OMDB)"),
            Year |-> Some("1979"), imdbRating |-> Some("8.5"),
            imdbVotes |-> Some("900"), Runtime |-> Some("117 min"),
            Genre |-> Some("Horror"), Director |-> Some("Scott"),
            Plot |-> Some("In space"), Poster |-> Some("p.jpg")]),
      Some([imdbID |-> Some(<<>>), Title |-> Some("No id")]),
      Some([imdbID |-> Some(<<"t", "2">>)]) }

\* The entries of streaming_data.
StreamInfos ==
    { None,
      Some([imdb_id |-> Some(<<"t", "1">>), streaming_options |-> Some(<<"netflix">>)]),
      Some([imdb_id |-> Some(<<"t", "1">>), streaming_options |-> Some(<<>>)]),
      Some([imdb_id |-> Some(<<"t", "2">>), streaming_options |-> Some(<<"prime">>)]) }

\* Mutant: the scan does not stop at the first entry with this imdb_id and
\* keeps the last one.
RECURSIVE FindStreamingInfo_Last(_, _)
FindStreamingInfo_Last(streaming_data, imdb_id) ==
    IF Len(streaming_data) = 0 THEN None
    ELSE LET n == Len(streaming_data)
         IN  IF /\ TruthyDict(streaming_data[n])
                /\ Get(Val(streaming_data[n]), "imdb_id") = imdb_id
             THEN streaming_data[n]
             ELSE FindStreamingInfo_Last(SubSeq(streaming_data, 1, n - 1), imdb_id)

\* Lines 60-65: the first entry of streaming_data with this imdb_id, or None.
RECURSIVE FindStreamingInfo(_, _)
FindStreamingInfo(streaming_data, imdb_id) ==
    IF Len(streaming_data) = 0 THEN None
    ELSE IF /\ TruthyDict(streaming_data[1])
            /\ Get(Val(streaming_data[1]), "imdb_id") = imdb_id
         THEN streaming_data[1]
         ELSE FindStreamingInfo(Tail(streaming_data), imdb_id)

\* 'episode_number': str(number) when pd.notna(number), else None.
EpisodeNumber(row) == row.number

\* The scraped fallback of lines 89-104.
PlotNote == "IMDb data not found for this movie. Episode information scraped from podcast website."

\* Mutant: line 69 tests `if omdb_info:` only, so metadata without an
\* identifier still supplies the title and year.
MovieEntry_IdOptional(row, position, omdb_data, streaming_data) ==
    LET omdb_info == IF position <= Len(omdb_data) THEN omdb_data[position] ELSE None
    IN  [ episode_number |-> row.number,
          episode_url |-> row.episode_url,
          title |-> IF TruthyDict(omdb_info)
                    THEN GetOr(Val(omdb_info), "Title", row.episode) ELSE row.episode,
          year |-> IF TruthyDict(omdb_info)
                   THEN GetOr(Val(omdb_info), "Year", row.year) ELSE row.year,
          imdb_id |-> None, imdb_rating |-> Some("N/A"), imdb_votes |-> Some("N/A"),
          imdb_url |-> None, runtime |-> Some("N/A"), genre |-> Some("N/A"),
          director |-> Some("N/A"), plot |-> Some(PlotNote), poster |-> Some(""),
          streaming_options |-> <<>> ]

\* Lines 52-110: the movie entry of the row at 1-based position.
MovieEntry(row, position, omdb_data, streaming_data) ==
    LET omdb_info == IF position <= Len(omdb_data) THEN omdb_data[position] ELSE None
        imdb_id == IF TruthyDict(omdb_info) THEN Get(Val(omdb_info), "imdbID") ELSE None
        streaming_info == IF TruthyStr(imdb_id)
                          THEN FindStreamingInfo(streaming_data, imdb_id)
                          ELSE None
        options == IF /\ TruthyDict(streaming_info)
                      /\ TruthyList(Get(Val(streaming_info), "streaming_options"))
                   THEN Val(Get(Val(streaming_info), "streaming_options"))
                   ELSE <<>>
        info == Val(omdb_info)
    IN  IF TruthyDict(omdb_info) /\ TruthyStr(imdb_id)
        THEN [ episode_number |-> EpisodeNumber(row),
               episode_url |-> row.episode_url,
               title |-> GetOr(info, "Title", row.episode),
               year |-> GetOr(info, "Year", row.year),
               imdb_id |-> imdb_id,
               imdb_rating |-> GetOr(info, "imdbRating", Some("N/A")),
               imdb_votes |-> GetOr(info, "imdbVotes", Some("N/A")),
               imdb_url |-> Some(<<"https://www.imdb.com/title/">> \o Val(imdb_id)),
               runtime |-> GetOr(info, "Runtime", Some("N/A")),
               genre |-> GetOr(info, "Genre", Some("N/A")),
               director |-> GetOr(info, "Director", Some("N/A")),
               plot |-> GetOr(info, "Plot", Some("N/A")),
               poster |-> GetOr(info, "Poster", Some("")),
               streaming_options |-> options ]
        ELSE [ episode_number |-> EpisodeNumber(row),
               episode_url |-> row.episode_url,
               title |-> row.episode,
               year |-> row.year,
               imdb_id |-> None,
               imdb_rating |-> Some("N/A"),
               imdb_votes |-> Some("N/A"),
               imdb_url |-> None,
               runtime |-> Some("N/A"),
               genre |-> Some("N/A"),
               director |-> Some("N/A"),
               plot |-> Some(PlotNote),
               poster |-> Some(""),
               streaming_options |-> options ]

\* Mutant: a row without usable metadata is skipped.
RECURSIVE MoviesFrom(_, _, _, _)
MoviesFrom(rows, position, omdb_data, streaming_data) ==
    IF position > Len(rows) THEN <<>>
    ELSE LET m == MovieEntry(rows[position], position, omdb_data, streaming_data)
         IN  (IF IsNone(m.imdb_id) THEN <<>> ELSE <<m>>)
             \o MoviesFrom(rows, position + 1, omdb_data, streaming_data)

Movies_SkipUnenriched(rows, omdb_data, streaming_data) ==
    MoviesFrom(rows, 1, omdb_data, streaming_data)

\* The `movies` list of generate_movies_json: one entry per row, in order.
Movies(rows, omdb_data, streaming_data) ==
    [ position \in 1..Len(rows) |->
        MovieEntry(rows[position], position, omdb_data, streaming_data) ]

\* generate_movies_json(episodes_df, omdb_data, streaming_data), lines 49-122.
GenerateMoviesJson ==
    /\ g_pc = "ready"
    /\ LET movies == Movies(g_rows, g_omdb, g_streaming)
       IN  g_out' = [total_movies |-> Len(movies), movies |-> movies]
    /\ g_pc' = "written"
    /\ GenFrame
    /\ UNCHANGED << g_rows, g_omdb, g_streaming >>

InitAssemble ==
    /\ g_rows \in SeqsUpTo(Rows, MaxEpisodes)
    /\ g_omdb \in SeqsUpTo(OmdbInfos, MaxEpisodes + 1)
    /\ g_streaming \in SeqsUpTo(StreamInfos, MaxEpisodes)
    /\ g_pc = "ready"
    /\ g_out = NoOutput
    /\ OmdbIdle
    /\ StreamIdle
    /\ CleanIdle
    /\ PipeIdle
    /\ MergeIdle
    /\ ScrapeIdle

NextAssemble == GenerateMoviesJson

SpecAssemble == InitAssemble /\ [][NextAssemble]_vars

\* ------------------------------------------------- claims: JSONGenerator

\* C10: generate_movies_json emits exactly one movie per episode row, in
\* episode order, whatever the metadata and availability lists hold, and
\* total_movies is the number of rows.
C10_OnePerEpisode ==
    g_pc = "written" =>
      /\ Len(g_out.movies) = Len(g_rows)
      /\ g_out.total_movies = Len(g_rows)
      /\ \A i \in 1..Len(g_rows) :
           /\ g_out.movies[i].episode_number = g_rows[i].number
           /\ g_out.movies[i].episode_url = g_rows[i].episode_url

\* C10 witness: two rows, a metadata list holding a single NotFound and no
\* availability at all, and two movies written.
C10_Witness ==
    /\ g_pc = "written" /\ Len(g_rows) = 2 /\ g_rows[1] # g_rows[2]
    /\ Len(g_omdb) = 1 /\ IsNone(g_omdb[1]) /\ Len(g_streaming) = 0
    /\ Len(g_out.movies) = 2

\* The metadata at 1-based position i is NotFound (or absent) or carries no
\* external identifier.
NoIdentifierAt(i) ==
    \/ i > Len(g_omdb)
    \/ IsNone(g_omdb[i])
    \/ "imdbID" \notin DOMAIN Val(g_omdb[i])
    \/ ~TruthyStr(Val(g_omdb[i]).imdbID)

\* C11: every movie has a non-null title and year; a movie whose metadata is
\* NotFound or has no external identifier takes title and year from the
\* scraped row, has a null id and url, placeholder metadata fields with the
\* explanatory note, and an empty options list.
C11_FallbackMovie ==
    g_pc = "written" =>
      \A i \in 1..Len(g_out.movies) :
        LET m == g_out.movies[i]
        IN  /\ ~IsNone(m.title) /\ ~IsNone(m.year)
            /\ NoIdentifierAt(i) =>
                 /\ m.title = g_rows[i].episode /\ m.year = g_rows[i].year
                 /\ IsNone(m.imdb_id) /\ IsNone(m.imdb_url)
                 /\ m.imdb_rating = Some("N/A") /\ m.imdb_votes = Some("N/A")
                 /\ m.runtime = Some("N/A") /\ m.genre = Some("N/A")
                 /\ m.director = Some("N/A") /\ m.poster = Some("")
                 /\ m.plot = Some(PlotNote)
                 /\ m.streaming_options = <<>>

\* C11 witness: a written movie whose metadata is a record with an empty
\* identifier and a title of its own, next to a non-empty availability list.
C11_Witness ==
    /\ g_pc = "written" /\ Len(g_rows) >= 1 /\ Len(g_omdb) >= 1
    /\ ~IsNone(g_omdb[1]) /\ NoIdentifierAt(1)
    /\ "Title" \in DOMAIN Val(g_omdb[1])
    /\ Len(g_streaming) >= 1 /\ ~IsNone(g_streaming[1])
    /\ g_out.movies[1].title = g_rows[1].episode

\* The positions of the availability records that carry the external id of
\* the metadata at position i.
RecordsFor(i) ==
    { k \in 1..Len(g_streaming) :
        /\ ~IsNone(g_streaming[k])
        /\ Get(Val(g_streaming[k]), "imdb_id") = Val(g_omdb[i]).imdbID }

\* C26: the streaming options of movie i are those of the first
\* availability record, in list order, whose external id equals that of the
\* metadata at position i, whatever later records hold; a movie without an
\* external id has an empty options list.
C26_FirstAvailability ==
    g_pc = "written" =>
      \A i \in 1..Len(g_out.movies) :
        IF NoIdentifierAt(i) \/ RecordsFor(i) = {}
        THEN g_out.movies[i].streaming_options = <<>>
        ELSE LET first == CHOOSE k \in RecordsFor(i) : \A j \in RecordsFor(i) : k <= j
             IN  g_out.movies[i].streaming_options
                    = Val(Val(g_streaming[first]).streaming_options)

\* C26 witness: two availability records carry the external id of the
\* first movie, with different options, and the movie has those of the
\* first; the second movie has no external id and no options.
C26_Witness ==
    /\ g_pc = "written" /\ Len(g_out.movies) = 2
    /\ ~NoIdentifierAt(1) /\ RecordsFor(1) = {1, 2}
    /\ Val(g_streaming[1]).streaming_options # Val(g_streaming[2]).streaming_options
    /\ g_out.movies[1].streaming_options = Val(Val(g_streaming[1]).streaming_options)
    /\ NoIdentifierAt(2) /\ g_out.movies[2].streaming_options = <<>>

\* =========================================== EpisodeDataCleaner: strings
\* A str is a sequence of code points, each written as a one-element token;
\* "I-dot" is U+0130 and "dot-above" is the combining mark U+0307.
UpperCase == <<"A", "B", "C", "D", "E", "F", "G", "H", "I", "J", "K", "L", "M",
               "N", "O", "P", "Q", "R", "S", "T", "U", "V", "W", "X", "Y", "Z">>
LowerCase == <<"a", "b", "c", "d", "e", "f", "g", "h", "i", "j", "k", "l", "m",
               "n", "o", "p", "q", "r", "s", "t", "u", "v", "w", "x", "y", "z">>
Range(f) == { f[i] : i \in DOMAIN f }

\* str.lower() of one code point: U+0130 lowers to "i" followed by U+0307.
LowerChar(c) ==
    IF c = "I-dot" THEN <<"i", "dot-above">>
    ELSE IF \E i \in 1..26 : UpperCase[i] = c
    THEN << LowerCase[CHOOSE i \in 1..26 : UpperCase[i] = c] >>
    ELSE << c >>

\* str.lower()
RECURSIVE lower(_)
lower(s) == IF Len(s) = 0 THEN <<>> ELSE LowerChar(s[1]) \o lower(Tail(s))

\* \w of the re module on str: letters, digits and the underscore; a
\* combining mark is not a word character.
IsWordChar(c) ==
    c \in Range(UpperCase) \cup Range(LowerCase) \cup Digits \cup {"_", "I-dot"}

\* s.startswith(sub) from 1-based position i
MatchAt(s, i, sub) ==
    /\ i + Len(sub) - 1 <= Len(s)
    /\ \A k \in 1..Len(sub) : s[i + k - 1] = sub[k]

\* `sub in s`
Contains(s, sub) == \E i \in 1..(Len(s) + 1) : MatchAt(s, i, sub)

\* s.replace(old, new), old non-empty
RECURSIVE ReplaceFrom(_, _, _, _)
ReplaceFrom(s, i, old, new) ==
    IF i > Len(s) THEN <<>>
    ELSE IF MatchAt(s, i, old) THEN new \o ReplaceFrom(s, i + Len(old), old, new)
    ELSE << s[i] >> \o ReplaceFrom(s, i + 1, old, new)

replace(s, old, new) == ReplaceFrom(s, 1, old, new)

\* s.strip()
RECURSIVE lstrip(_)
lstrip(s) == IF Len(s) > 0 /\ IsSpace(s[1]) THEN lstrip(Tail(s)) ELSE s
RECURSIVE rstrip(_)
rstrip(s) ==
    IF Len(s) > 0 /\ IsSpace(s[Len(s)]) THEN rstrip(SubSeq(s, 1, Len(s) - 1)) ELSE s
strip(s) == rstrip(lstrip(s))

\* s.split(sep) with a one-character sep: the list of pieces.
RECURSIVE SplitOn(_, _, _)
SplitOn(s, sep, piece) ==
    IF Len(s) = 0 THEN << piece >>
    ELSE IF s[1] = sep THEN << piece >> \o SplitOn(Tail(s), sep, <<>>)
    ELSE SplitOn(Tail(s), sep, Append(piece, s[1]))

\* re.sub(r'\W+', ' ', s): every maximal run of non-word characters becomes
\* one space.
RECURSIVE SubNonWord(_, _)
SubNonWord(s, inRun) ==
    IF Len(s) = 0 THEN <<>>
    ELSE IF IsWordChar(s[1]) THEN << s[1] >> \o SubNonWord(Tail(s), FALSE)
    ELSE (IF inRun THEN <<>> ELSE << " " >>) \o SubNonWord(Tail(s), TRUE)

\* Lines 195-200: episode_normalized of a non-null episode.
NormalizeEpisode(x) == strip(lower(SubNonWord(x, FALSE)))

\* ========================================= EpisodeDataCleaner: the model
\* String literals of the cleaner.
TranscriptMark == <<"T", "R", "A", "N", "S", "C", "R", "I", "P", "T">>
EpMark == <<"E", "p", ".">>
ToraMark == <<"1", "0", "0", " ", "T", "o", "r", "a">>
ToraWrong == <<"1", "0", "0", " ", "T", "o", "r", "a", "!", " ", "T", "o", "r", "a", "!", " ", "T", "o", "r", "a", "!">>
ToraRight == <<"T", "o", "r", "a", "!", " ", "T", "o", "r", "a", "!", " ", "T", "o", "r", "a", "!">>

\* EXCLUDE_PATTERNS, lines 17-24.
EXCLUDE_PATTERNS ==
    << TranscriptMark,
       <<"R", "o", "g", "u", "e", " ", "O", "n", "e">>,
       <<"P", "o", "r", "k", " ", "C", "h", "o", "p", " ", "F", "e", "e", "d">>,
       <<"B", "o", "n", "u", "s">>,
       <<"L", "i", "v", "e", " ", "S", "h", "o", "w">>,
       <<"S", "p", "e", "c", "i", "a", "l">> >>

\* One code point under re.IGNORECASE: U+0130 folds to "i".
FoldChar(c) == IF c = "I-dot" THEN "i" ELSE LowerChar(c)[1]
Fold(s) == [ i \in 1..Len(s) |-> FoldChar(s[i]) ]

\* Series.str.contains(pattern, case=False) for a literal pattern.
ContainsNoCase(s, pattern) == Contains(Fold(s), Fold(pattern))

\* The end (exclusive) of the run of characters in S that starts at i.
RECURSIVE RunEnd(_, _, _)
RunEnd(s, i, S) == IF i <= Len(s) /\ s[i] \in S THEN RunEnd(s, i + 1, S) ELSE i

\* Length of a suffix of r of the form \s*\(\d{4}\), 0 when there is none.
YearSuffixLen(r) ==
    LET n == Len(r)
    IN  IF /\ n >= 6 /\ r[n] = ")" /\ r[n - 5] = "("
           /\ \A k \in (n - 4)..(n - 1) : r[k] \in Digits
        THEN LET before == rstrip(SubSeq(r, 1, n - 6)) IN n - Len(before)
        ELSE 0

\* Line 52 tried at the occurrence of "Ep." at position i:
\* Ep\.\s*(\d+):\s*(.+?)(?:\s*\((\d{4})\))?$ ; None when it does not match
\* there, else [num, title] = groups 1 and 2.
TranscriptMatchAt(title, i) ==
    LET d1 == RunEnd(title, i + 3, {" "})
        d2 == RunEnd(title, d1, Digits)
    IN  IF d2 = d1 \/ d2 > Len(title) \/ title[d2] # ":" \/ d2 = Len(title)
        THEN None
        ELSE LET r == lstrip(SubSeq(title, d2 + 1, Len(title)))
                 y == YearSuffixLen(r)
                 g == IF Len(r) = 0 THEN << " " >>
                      ELSE IF y > 0 /\ Len(r) - y >= 1 THEN SubSeq(r, 1, Len(r) - y)
                      ELSE r
             IN  Some([num |-> SubSeq(title, d1, d2 - 1), title |-> g])

\* re.search of line 52: the leftmost occurrence of "Ep." where it matches.
RECURSIVE TranscriptSearch(_, _)
TranscriptSearch(title, i) ==
    IF i > Len(title) THEN None
    ELSE IF MatchAt(title, i, EpMark) /\ ~IsNone(TranscriptMatchAt(title, i))
    THEN TranscriptMatchAt(title, i)
    ELSE TranscriptSearch(title, i + 1)

\* Lines 57-65: the first episode that is no transcript and whose title
\* contains movie_title (lowercased); 0 when there is none.
RECURSIVE FindEpisodeFor(_, _, _)
FindEpisodeFor(raw_episodes, k, movie_title) ==
    IF k > Len(raw_episodes) THEN 0
    ELSE IF /\ ~Contains(raw_episodes[k].raw_title, TranscriptMark)
            /\ Contains(lower(raw_episodes[k].raw_title), lower(movie_title))
    THEN k
    ELSE FindEpisodeFor(raw_episodes, k + 1, movie_title)

\* Lines 46-65: episode_mapping after the first n raw episodes.
RECURSIVE EpisodeMapping(_, _)
EpisodeMapping(raw_episodes, n) ==
    IF n = 0 THEN EmptyDict
    ELSE LET prev == EpisodeMapping(raw_episodes, n - 1)
             title == raw_episodes[n].raw_title
             m == IF Contains(title, TranscriptMark) /\ Contains(title, EpMark)
                  THEN TranscriptSearch(title, 1) ELSE None
             k == IF IsNone(m) THEN 0
                  ELSE FindEpisodeFor(raw_episodes, 1, strip(Val(m).title))
         IN  IF k = 0 THEN prev
             ELSE (raw_episodes[k].raw_title :>
                     [number |-> Val(m).num, url |-> raw_episodes[k].episode_url]) @@ prev

\* Lines 99-110: one parsed row per raw episode; `raw` remembers the label.
ParseTitles(raw_episodes, episode_mapping) ==
    [ i \in 1..Len(raw_episodes) |->
        LET title == raw_episodes[i].raw_title
            episode_url == raw_episodes[i].episode_url
        IN  IF title \in DOMAIN episode_mapping
            THEN [ number |-> Some(episode_mapping[title].number),
                   episode |-> title,
                   episode_url |-> IF TruthyStr(episode_mapping[title].url)
                                   THEN episode_mapping[title].url ELSE episode_url,
                   raw |-> title ]
            ELSE [ number |-> None, episode |-> title, episode_url |-> episode_url,
                   raw |-> title ] ]

\* Lines 118-119: quotes removed ("dq" is the double quote).
CleanEpisodeName(episode) == replace(replace(episode, <<"'">>, <<>>), <<"dq">>, <<>>)

\* Lines 127-136: split on "(" with expand=True. Column 1 exists when some
\* row has a "("; a row without one gets a missing year.
ExtractYears(df) ==
    LET pieces(i) == SplitOn(df[i].episode, "(", <<>>)
        hasColumn1 == \E i \in 1..Len(df) : Len(pieces(i)) >= 2
    IN  [ i \in 1..Len(df) |->
            [ df[i] EXCEPT
                !.episode = strip(pieces(i)[1]) ] @@
            [ year |-> IF hasColumn1 /\ Len(pieces(i)) >= 2
                       THEN Some(strip(replace(pieces(i)[2], <<")">>, <<>>)))
                       ELSE None ] ]

\* Mutant: the filter compares case-sensitively.
RowIsValid_CaseSensitive(row, checkNumber) ==
    \A p \in 1..Len(EXCLUDE_PATTERNS) :
        /\ (checkNumber /\ ~IsNone(row.number))
              => ~Contains(Val(row.number), EXCLUDE_PATTERNS[p])
        /\ ~Contains(row.episode, EXCLUDE_PATTERNS[p])

\* Lines 148-152: valid_mask of one row; the number is tested only when
\* some row has one.
RowIsValid(row, checkNumber) ==
    \A p \in 1..Len(EXCLUDE_PATTERNS) :
        /\ (checkNumber /\ ~IsNone(row.number))
              => ~ContainsNoCase(Val(row.number), EXCLUDE_PATTERNS[p])
        /\ ~ContainsNoCase(row.episode, EXCLUDE_PATTERNS[p])

\* Lines 140-160.
FilterInvalidEpisodes(df) ==
    LET checkNumber == \E i \in 1..Len(df) : ~IsNone(df[i].number)
    IN  SelectSeq(df, LAMBDA row : RowIsValid(row, checkNumber))

\* Lines 168-170 and 180 on one number.
NormalizeNumber(number) ==
    strip(replace(replace(replace(number, <<"E", "p", " ">>, <<>>), <<"E", "p", "i", "s", "o", "d", "e", " ">>, <<>>),
                  <<"E", "p">>, <<"1", "0", "0">>))

\* Lines 172-177 on one episode name.
FixKnownEpisode(episode) ==
    IF Contains(episode, ToraMark)
    THEN replace(episode, ToraWrong, ToraRight)
    ELSE episode

\* Lines 162-182.
NormalizeEpisodeNumbers(df) ==
    [ i \in 1..Len(df) |->
        [ df[i] EXCEPT
            !.number = IF IsNone(df[i].number) THEN None
                       ELSE Some(NormalizeNumber(Val(df[i].number))),
            !.episode = FixKnownEpisode(df[i].episode) ] ]

\* str(year) of line 204.
YearText(year) == IF IsNone(year) THEN <<"N", "o", "n", "e">> ELSE Val(year)

\* Lines 184-206.
CreateSearchField(df) ==
    [ i \in 1..Len(df) |->
        LET n == NormalizeEpisode(df[i].episode)
        IN  df[i] @@ [ episode_normalized |-> n,
                       movie_year |-> n \o YearText(df[i].year) ] ]

\* Line 78: dropna(subset=['episode', 'year']); the episode is never null.
DropMissing(df) == SelectSeq(df, LAMBDA row : ~IsNone(row.year))

\* Lines 67-78: the frame before the emptiness test.
CleanedFrame(raw_episodes) ==
    LET parsed == ParseTitles(raw_episodes, EpisodeMapping(raw_episodes, Len(raw_episodes)))
        named == [ i \in 1..Len(parsed) |->
                     [ parsed[i] EXCEPT !.episode = CleanEpisodeName(@) ] ]
    IN  DropMissing(CreateSearchField(NormalizeEpisodeNumbers(
            FilterInvalidEpisodes(ExtractYears(named)))))

\* Mutant: an empty frame is returned instead of raising.
CleanEpisodes_ReturnEmpty(raw_episodes) ==
    [exc |-> "none", df |-> CleanedFrame(raw_episodes)]

\* clean_episodes(raw_episodes): [exc, df]; ValueError when nothing is left.
CleanEpisodes(raw_episodes) ==
    LET df == CleanedFrame(raw_episodes)
    IN  IF Len(df) = 0 THEN [exc |-> "ValueError", df |-> <<>>]
        ELSE [exc |-> "none", df |-> df]

\* Raw labels of the listing.
\* Alien (1979): a plain movie episode
LabelAlien ==
    <<"A", "l", "i", "e", "n", " ", "(", "1", "9", "7", "9", ")">>
\* TRANSCRIPT Ep. 1: Alien (1979): the transcript that numbers it
LabelTranscript ==
    <<"T", "R", "A", "N", "S", "C", "R", "I", "P", "T", " ", "E", "p", ".", " ", "1", ":", " ", "A", "l", "i", "e", "n", " ", "(", "1", "9", "7", "9", ")">>
\* 12: Zulu (1964): the "N: Title (YYYY)" shape
LabelNumbered ==
    <<"1", "2", ":", " ", "Z", "u", "l", "u", " ", "(", "1", "9", "6", "4", ")">>
\* bonus Reel (2019): an exclusion pattern in other case
LabelBonus ==
    <<"b", "o", "n", "u", "s", " ", "R", "e", "e", "l", " ", "(", "2", "0", "1", "9", ")">>
\* Heat (): an empty parenthesis
LabelEmptyYear ==
    <<"H", "e", "a", "t", " ", "(", ")">>
\* (1987): nothing before the parenthesis
LabelEmptyTitle ==
    <<"(", "1", "9", "8", "7", ")">>
\* Ran (uncut): a parenthetical that is no year
LabelNoYear ==
    <<"R", "a", "n", " ", "(", "u", "n", "c", "u", "t", ")">>
\* Platoon: no parenthesis at all
LabelNoParen ==
    <<"P", "l", "a", "t", "o", "o", "n">>

\* Longest raw_episodes list handed to clean_episodes.
MaxRaw == 2
\* Longest episode name handed to the normalisation.
MaxName == 3

Labels ==
    { LabelAlien, LabelTranscript, LabelNumbered, LabelBonus, LabelEmptyYear,
      LabelEmptyTitle, LabelNoYear, LabelNoParen }

\* The scraper gives every episode its page URL.
RawEpisode(label) == [raw_title |-> label, episode_url |-> Some(<<"u">> \o label)]
RawEpisodes == { RawEpisode(label) : label \in Labels }

\* Code points of the episode names handed to the normalisation.
NameChars == {"A", "b", "1", " ", "!", "I-dot"}

\* clean_episodes(raw_episodes)
CleanEpisodesCall ==
    /\ c_pc = "ready"
    /\ LET r == CleanEpisodes(c_raw)
       IN  /\ c_pc' = IF r.exc = "none" THEN "returned" ELSE "raised"
           /\ c_df' = r.df
    /\ UNCHANGED << c_raw, n_in, n_pc, n_out >>
    /\ CleanFrame

InitClean ==
    /\ c_raw \in SeqsUpTo(RawEpisodes, MaxRaw)
    /\ c_pc = "ready" /\ c_df = <<>>
    /\ n_in = <<>> /\ n_pc = "idle" /\ n_out = <<>>
    /\ OmdbIdle /\ StreamIdle /\ GenIdle
    /\ PipeIdle
    /\ MergeIdle
    /\ ScrapeIdle

NextClean == CleanEpisodesCall

SpecClean == InitClean /\ [][NextClean]_vars

\* The normalisation applied to a name, then to its own result.
NormalizeOnce ==
    /\ n_pc = "ready"
    /\ n_out' = NormalizeEpisode(n_in)
    /\ n_pc' = "once"
    /\ UNCHANGED << c_raw, c_pc, c_df, n_in >>
    /\ CleanFrame

NormalizeAgain ==
    /\ n_pc = "once"
    /\ n_out' = NormalizeEpisode(n_out)
    /\ n_pc' = "twice"
    /\ UNCHANGED << c_raw, c_pc, c_df, n_in >>
    /\ CleanFrame

InitNormalize ==
    /\ n_in \in SeqsUpTo(NameChars, MaxName)
    /\ n_pc = "ready" /\ n_out = <<>>
    /\ c_raw = <<>> /\ c_pc = "idle" /\ c_df = <<>>
    /\ OmdbIdle /\ StreamIdle /\ GenIdle
    /\ PipeIdle
    /\ MergeIdle
    /\ ScrapeIdle

NextNormalize == NormalizeOnce \/ NormalizeAgain

SpecNormalize == InitNormalize /\ [][NextNormalize]_vars

\* --------------------------------------------- claims: EpisodeDataCleaner

\* Position of the first occurrence of the character c in s, 0 when absent.
FirstIndex(s, c) ==
    IF \E i \in 1..Len(s) : s[i] = c
    THEN CHOOSE i \in 1..Len(s) : s[i] = c /\ \A k \in 1..(i - 1) : s[k] # c
    ELSE 0

\* A label of the shape "N: Title (YYYY)": digits, a colon, a title without
\* parenthesis, and a four-digit year in parentheses at the end.
WellFormed(label) ==
    LET c == FirstIndex(label, ":")
        n == Len(label)
    IN  /\ c > 1 /\ \A k \in 1..(c - 1) : label[k] \in Digits
        /\ n >= c + 7
        /\ label[n] = ")" /\ label[n - 5] = "("
        /\ \A k \in (n - 4)..(n - 1) : label[k] \in Digits
        /\ FirstIndex(label, "(") = n - 5
        /\ Len(strip(SubSeq(label, c + 1, n - 6))) > 0

\* What the claim says parsing recovers from a well-formed label.
ClaimedParse(label) ==
    LET c == FirstIndex(label, ":")
        n == Len(label)
    IN  [ number |-> SubSeq(label, 1, c - 1),
          title |-> strip(CleanEpisodeName(SubSeq(label, c + 1, n - 6))),
          year |-> SubSeq(label, n - 4, n - 1) ]

\* C13: a row parsed from a well-formed "N: Title (YYYY)" label carries N as
\* its number, Title as its episode name and YYYY as its year.
C13_ParseRecovers ==
    c_pc = "returned" =>
      \A i \in 1..Len(c_df) :
        WellFormed(c_df[i].raw) =>
          /\ c_df[i].number = Some(ClaimedParse(c_df[i].raw).number)
          /\ c_df[i].episode = ClaimedParse(c_df[i].raw).title
          /\ c_df[i].year = Some(ClaimedParse(c_df[i].raw).year)

\* The part of a raw label before its first "(": the number and title
\* portions.
BeforeParen(label) ==
    IF FirstIndex(label, "(") = 0 THEN label
    ELSE SubSeq(label, 1, FirstIndex(label, "(") - 1)

\* A label with an exclusion pattern, in any case, before the parenthesis.
Excluded(label) ==
    \E p \in 1..Len(EXCLUDE_PATTERNS) :
        ContainsNoCase(BeforeParen(label), EXCLUDE_PATTERNS[p])

\* C14: no row returned by clean_episodes comes from a label with an
\* exclusion pattern (compared case-insensitively) in its number or title
\* portion, and no returned number contains one.
C14_ExcludedDropped ==
    c_pc = "returned" =>
      \A i \in 1..Len(c_df) :
        /\ ~Excluded(c_df[i].raw)
        /\ ~IsNone(c_df[i].number) =>
             \A p \in 1..Len(EXCLUDE_PATTERNS) :
                ~ContainsNoCase(Val(c_df[i].number), EXCLUDE_PATTERNS[p])

\* C14 witness: a listing with an excluded label (in lower case) returns,
\* and returns fewer rows than it had labels.
C14_Witness ==
    /\ c_pc = "returned"
    /\ \E i \in 1..Len(c_raw) : c_raw[i].raw_title = LabelBonus
    /\ Len(c_df) = 1 /\ Len(c_raw) = 2

\* C15: every returned row has a non-empty episode name and a year of
\* exactly four ASCII digits.
C15_TitleAndYear ==
    c_pc = "returned" =>
      \A i \in 1..Len(c_df) :
        /\ Len(c_df[i].episode) > 0
        /\ ~IsNone(c_df[i].year)
        /\ Len(Val(c_df[i].year)) = 4
        /\ \A k \in 1..Len(Val(c_df[i].year)) : Val(c_df[i].year)[k] \in Digits

\* C16: normalising a normalised name returns it unchanged.
C16_Idempotent == n_pc = "twice" => n_out = NormalizeEpisode(n_in)

\* ======================================================= main: the model
\* Longest existing movies.json of a run.
MaxFile == 2

\* str(x) inside an f-string: None prints as "None".
FmtOpt(o) == IF IsNone(o) THEN <<"N", "o", "n", "e">> ELSE Val(o)

\* A row of episodes_df as generate_movies_json reads it with row.get.
DfRow(row) ==
    [ number |-> row.number, episode |-> Some(row.episode), year |-> row.year,
      episode_url |-> row.episode_url ]

\* The record OMDB holds for a cleaned row.
OmdbRecordFor(row) ==
    [ imdbID |-> Some(<<"t", "t">> \o row.episode_normalized),
      Title |-> Some(row.episode), Year |-> row.year,
      imdbRating |-> Some("7.0"), imdbVotes |-> Some("1,000"),
      Runtime |-> Some("100 min"), Genre |-> Some("War"),
      Director |-> Some("Someone"), Plot |-> Some("A plot"),
      Poster |-> Some("p.jpg") ]

\* The availability records the service may hold for an identifier.
AvailabilityFor(imdb_id) ==
    { None,
      Some([imdb_id |-> Some(imdb_id), streaming_options |-> Some(<<>>)]),
      Some([imdb_id |-> Some(imdb_id), streaming_options |-> Some(<<"netflix">>)]) }

\* The five fields a merge pass of merge_ratings.py writes on a movie.
RatingFields == [ ar |-> Some("4"), br |-> None, jr |-> Some("5"),
                  rating |-> Some("4.5"), rating_notes |-> Some("notes") ]

\* Rows as clean_episodes returns them for the listing "Alien (1979)" with
\* its transcript "TRANSCRIPT Ep. 1: Alien (1979)", and for "12: Zulu (1964)".
FileRowAlien ==
    [ number |-> Some(<<"1">>), episode |-> <<"A", "l", "i", "e", "n">>, year |-> Some(<<"1", "9", "7", "9">>),
      episode_url |-> Some(<<"u">> \o LabelAlien), raw |-> LabelAlien,
      episode_normalized |-> <<"a", "l", "i", "e", "n">>, movie_year |-> <<"a", "l", "i", "e", "n", "1", "9", "7", "9">> ]
FileRowZulu ==
    [ number |-> None, episode |-> <<"1", "2", ":", " ", "Z", "u", "l", "u">>, year |-> Some(<<"1", "9", "6", "4">>),
      episode_url |-> Some(<<"u">> \o LabelNumbered), raw |-> LabelNumbered,
      episode_normalized |-> <<"1", "2", " ", "z", "u", "l", "u">>, movie_year |-> <<"1", "2", " ", "z", "u", "l", "u", "1", "9", "6", "4">> ]

\* Movies of an existing movies.json: an episode numbered by its transcript,
\* found by OMDB and rated by a merge pass; and an episode OMDB did not find.
FileMovieRated ==
    MovieEntry(DfRow(FileRowAlien), 1, << Some(OmdbRecordFor(FileRowAlien)) >>,
               << Some([imdb_id |-> OmdbRecordFor(FileRowAlien).imdbID,
                        streaming_options |-> Some(<<"netflix">>)]) >>)
    @@ RatingFields
FileMoviePlain == MovieEntry(DfRow(FileRowZulu), 1, << None >>, <<>>)
FileMovies == { FileMovieRated, FileMoviePlain }

\* What docs/data/movies.json may hold when the run starts.
Files ==
    { None } \cup { Some([total_movies |-> Len(ms), movies |-> ms]) :
                      ms \in SeqsUpTo(FileMovies, MaxFile) }

\* The file as the run finds it: fixed from the first time it is touched.
FileNow == IF p_file.seen THEN { p_file.data } ELSE Files

\* The listings the site may show; scraping may also raise.
SiteLabels == { LabelAlien, LabelTranscript, LabelBonus, LabelNumbered }
SiteListings == SeqsUpTo({ RawEpisode(label) : label \in SiteLabels }, MaxRaw)
Scrapes ==
    { [exc |-> TRUE, episodes |-> <<>>] } \cup
    { [exc |-> FALSE, episodes |-> eps] : eps \in SiteListings }

\* The exit of main with status 1 (lines 116-118, 125-127, 224-226).
Fail ==
    /\ p_pc' = "exit" /\ p_exit' = Some(1)

\* open(...) and json.load of the existing file with content d.
ReadFile(d) ==
    /\ p_file' = [seen |-> TRUE, data |-> d]
    /\ p_before' = IF p_file.seen THEN p_before ELSE d

\* Lines 104-109: raw_episodes rebuilt from the movies of the existing file.
ReloadRaw(movies) ==
    [ i \in 1..Len(movies) |->
        [ raw_title |-> FmtOpt(Get(movies[i], "title")) \o <<" ", "(">>
                        \o FmtOpt(Get(movies[i], "year")) \o <<")">>,
          episode_url |-> GetOr(movies[i], "episode_url", Some(<<>>)) ] ]

\* Step 1, lines 97-118.
LoadOrScrape ==
    /\ p_pc = "step1"
    /\ IF p_args.skip_scraping
       THEN \E d \in FileNow :
              /\ ReadFile(d)
              /\ IF IsNone(d)
                 THEN Fail /\ UNCHANGED p_raw
                 ELSE /\ p_raw' = ReloadRaw(Val(d).movies)
                      /\ IF Len(Val(d).movies) = 0 THEN Fail
                         ELSE p_pc' = "step2" /\ UNCHANGED p_exit
       ELSE \E site \in Scrapes :
              /\ UNCHANGED << p_file, p_before >>
              /\ IF site.exc
                 THEN Fail /\ UNCHANGED p_raw
                 ELSE /\ p_raw' = site.episodes
                      /\ IF Len(site.episodes) = 0 THEN Fail
                         ELSE p_pc' = "step2" /\ UNCHANGED p_exit
    /\ UNCHANGED << p_args, p_wrote, p_clean, p_df, p_omdb, p_streaming, p_lookups >>
    /\ PipeFrame

\* Step 2, lines 120-127.
CleanStep ==
    /\ p_pc = "step2"
    /\ \E r \in { CleanEpisodes(p_raw) } :
          /\ p_clean' = r.exc
          /\ p_df' = r.df
          /\ IF r.exc # "none" \/ Len(r.df) = 0 THEN Fail
             ELSE p_pc' = "step3" /\ UNCHANGED p_exit
    /\ UNCHANGED << p_args, p_file, p_before, p_wrote, p_raw, p_omdb, p_streaming,
                    p_lookups >>
    /\ PipeFrame

\* Lines 136-152: omdb_data rebuilt from the existing file.
CachedOmdb(movies) ==
    [ i \in 1..Len(movies) |->
        IF TruthyStr(Get(movies[i], "imdb_id"))
        THEN Some([ imdbID |-> Get(movies[i], "imdb_id"),
                    Title |-> Get(movies[i], "title"),
                    Year |-> Get(movies[i], "year"),
                    imdbRating |-> Get(movies[i], "imdb_rating"),
                    imdbVotes |-> Get(movies[i], "imdb_votes"),
                    Runtime |-> Get(movies[i], "runtime"),
                    Genre |-> Get(movies[i], "genre"),
                    Director |-> Get(movies[i], "director"),
                    Plot |-> Get(movies[i], "plot"),
                    Poster |-> Get(movies[i], "poster") ])
        ELSE None ]

\* Step 3, lines 129-164; OMDBClient() raises without OMDB_API_KEY.
OmdbStep ==
    /\ p_pc = "step3"
    /\ IF p_args.skip_apis
       THEN \E d \in FileNow :
              /\ ReadFile(d)
              /\ UNCHANGED p_lookups
              /\ IF IsNone(d)
                 THEN Fail /\ UNCHANGED p_omdb
                 ELSE /\ p_omdb' = CachedOmdb(Val(d).movies)
                      /\ p_pc' = "step4" /\ UNCHANGED p_exit
       ELSE /\ UNCHANGED << p_file, p_before >>
            /\ \E has_key \in BOOLEAN :
                 IF ~has_key
                 THEN Fail /\ UNCHANGED << p_omdb, p_lookups >>
                 ELSE \E found \in [1..Len(p_df) -> BOOLEAN] :
                        /\ p_omdb' = [ i \in 1..Len(p_df) |->
                                         IF found[i] THEN Some(OmdbRecordFor(p_df[i]))
                                         ELSE None ]
                        /\ p_lookups' = p_lookups + Len(p_df)
                        /\ p_pc' = "step4" /\ UNCHANGED p_exit
    /\ UNCHANGED << p_args, p_wrote, p_raw, p_clean, p_df, p_streaming >>
    /\ PipeFrame

\* Lines 173-181: streaming_data rebuilt from the existing file.
CachedStreaming(movies) ==
    [ i \in 1..Len(movies) |->
        IF "streaming_options" \in DOMAIN movies[i] /\ Len(movies[i].streaming_options) > 0
        THEN Some([ imdb_id |-> Get(movies[i], "imdb_id"),
                    streaming_options |-> Some(movies[i].streaming_options) ])
        ELSE None ]

\* Line 186: the identifiers of the metadata that has one.
RECURSIVE ImdbIds(_)
ImdbIds(omdb_data) ==
    IF Len(omdb_data) = 0 THEN <<>>
    ELSE (IF TruthyDict(omdb_data[1]) /\ TruthyStr(Get(Val(omdb_data[1]), "imdbID"))
          THEN << Val(Get(Val(omdb_data[1]), "imdbID")) >> ELSE <<>>)
         \o ImdbIds(Tail(omdb_data))

\* Step 4, lines 166-196; StreamingAvailabilityClient() raises without
\* RAPIDAPI_KEY.
StreamingStep ==
    /\ p_pc = "step4"
    /\ IF p_args.skip_apis \/ p_args.skip_streaming
       THEN \E d \in FileNow :
              /\ ReadFile(d)
              /\ UNCHANGED p_lookups
              /\ IF IsNone(d)
                 THEN Fail /\ UNCHANGED p_streaming
                 ELSE /\ p_streaming' = CachedStreaming(Val(d).movies)
                      /\ p_pc' = "step5" /\ UNCHANGED p_exit
       ELSE /\ UNCHANGED << p_file, p_before >>
            /\ LET imdb_ids == ImdbIds(p_omdb)
               IN  IF Len(imdb_ids) = 0
                   THEN /\ p_streaming' = <<>>
                        /\ p_pc' = "step5" /\ UNCHANGED << p_exit, p_lookups >>
                   ELSE \E has_key \in BOOLEAN :
                          IF ~has_key
                          THEN Fail /\ UNCHANGED << p_streaming, p_lookups >>
                          ELSE \E data \in [1..Len(imdb_ids) ->
                                              UNION { AvailabilityFor(imdb_ids[k]) :
                                                        k \in 1..Len(imdb_ids) }] :
                                 /\ \A k \in 1..Len(imdb_ids) :
                                       data[k] \in AvailabilityFor(imdb_ids[k])
                                 /\ p_streaming' = data
                                 /\ p_lookups' = p_lookups + Len(imdb_ids)
                                 /\ p_pc' = "step5" /\ UNCHANGED p_exit
    /\ UNCHANGED << p_args, p_wrote, p_raw, p_clean, p_df, p_omdb >>
    /\ PipeFrame

\* Step 5, lines 198-222: generate_json_output writes docs/data/movies.json.
GenerateStep ==
    /\ p_pc = "step5"
    /\ LET rows == [ i \in 1..Len(p_df) |-> DfRow(p_df[i]) ]
           movies == Movies(rows, p_omdb, p_streaming)
       IN  p_file' = [seen |-> TRUE,
                      data |-> Some([total_movies |-> Len(movies), movies |-> movies])]
    /\ p_wrote' = TRUE
    /\ p_pc' = "exit" /\ p_exit' = Some(0)
    /\ UNCHANGED << p_args, p_before, p_raw, p_clean, p_df, p_omdb, p_streaming,
                    p_lookups >>
    /\ PipeFrame

InitPipeline ==
    /\ p_args \in [skip_apis : BOOLEAN, skip_streaming : BOOLEAN, skip_scraping : BOOLEAN]
    /\ p_file = Unseen /\ p_before = None /\ p_wrote = FALSE
    /\ p_pc = "step1"
    /\ p_raw = <<>> /\ p_clean = "" /\ p_df = <<>> /\ p_omdb = <<>>
    /\ p_streaming = <<>> /\ p_lookups = 0 /\ p_exit = None
    /\ OmdbIdle /\ StreamIdle /\ GenIdle /\ CleanIdle
    /\ MergeIdle
    /\ ScrapeIdle

NextPipeline == LoadOrScrape \/ CleanStep \/ OmdbStep \/ StreamingStep \/ GenerateStep

SpecPipeline == InitPipeline /\ [][NextPipeline]_vars

\* ----------------------------------------------------- claims: pipeline

\* The rating fields of a merge pass.
RatingKeys == {"ar", "br", "jr", "rating", "rating_notes"}

\* The movie `before` is still present as `after`: same episode number,
\* title, year and metadata, and every rating field it carried.
Kept(before, after) ==
    /\ \A k \in {"episode_number", "title", "year", "imdb_id", "imdb_rating",
                 "imdb_votes", "imdb_url", "runtime", "genre", "director", "plot",
                 "poster"} : after[k] = before[k]
    /\ \A k \in RatingKeys \cap DOMAIN before :
          k \in DOMAIN after /\ after[k] = before[k]

\* C12: a run that reloads the existing dataset for both its episodes and
\* its metadata (--skip-scraping --skip-apis) and ends with status 0 leaves a
\* dataset that still holds every movie the dataset held before, with the
\* same episode number, title, year and metadata and with its rating fields.
C12_ReloadKeepsData ==
    (/\ p_pc = "exit" /\ p_exit = Some(0)
     /\ p_args.skip_scraping /\ p_args.skip_apis) =>
      \A i \in 1..Len(Val(p_before).movies) :
        \E j \in 1..Len(Val(p_file.data).movies) :
          Kept(Val(p_before).movies[i], Val(p_file.data).movies[j])

\* C17: when clean_episodes finds no valid episode it raises, and the run
\* then ends with status 1 without having issued a metadata or availability
\* lookup and without having written the output file; a run never goes on
\* with an empty episode frame.
C17_HardStop ==
    /\ p_clean = "ValueError" =>
         /\ p_pc = "exit" /\ p_exit = Some(1)
         /\ p_lookups = 0 /\ ~p_wrote
    /\ (p_clean # "" /\ Len(p_df) = 0) => p_clean = "ValueError"

\* C17 witness: a run with a non-empty listing of which no episode is valid
\* has ended.
C17_Witness ==
    /\ p_pc = "exit" /\ Len(p_raw) > 0 /\ p_clean = "ValueError"
    /\ p_exit = Some(1)

\* The metadata record is the one of the episode of this row: it carries
\* the identifier OMDB holds for the row's title.
MetadataOf(row, record) ==
    Get(record, "imdbID") = Some(<<"t", "t">> \o row.episode_normalized)

\* C25: In every mode of the command line, the metadata list handed to the
\* assembler has the length of the cleaned episode sequence, and its entry
\* i is the metadata of episode i (or None).
C25_MetadataAligned ==
    p_pc = "step5" =>
        /\ Len(p_omdb) = Len(p_df)
        /\ \A i \in 1..Min(Len(p_omdb), Len(p_df)) :
              ~IsNone(p_omdb[i]) => MetadataOf(p_df[i], Val(p_omdb[i]))

\* ================================================ RatingMerger: strings
\* Position of the leftmost match of \s*\(\d{4}\) in title, 0 when there is
\* none: the match starts at the whitespace run in front of "(dddd)".
RECURSIVE YearTagStart(_, _)
YearTagStart(title, i) ==
    IF i > Len(title) THEN 0
    ELSE LET p == RunEnd(title, i, {" "})
         IN  IF /\ p + 5 <= Len(title) /\ title[p] = "(" /\ title[p + 5] = ")"
                /\ \A k \in (p + 1)..(p + 4) : title[k] \in Digits
             THEN i
             ELSE YearTagStart(title, i + 1)

\* clean_title, lines 71-79.
clean_title(title) ==
    IF Len(title) = 0 THEN <<>>
    ELSE LET i == YearTagStart(title, 1)
         IN  strip(IF i = 0 THEN title ELSE SubSeq(title, 1, i - 1))

\* Lines 92-93: the punctuation normalize_title removes ("dq" is the double
\* quote).
Punctuation == {":", ",", ".", "!", "?", "-", "'", "dq"}

\* normalize_title, lines 81-94.
normalize_title(title) ==
    IF Len(title) = 0 THEN <<>>
    ELSE LET t1 == strip(lower(clean_title(title)))
             t2 == IF MatchAt(t1, 1, <<"t", "h", "e", " ">>) THEN SubSeq(t1, 5, Len(t1)) ELSE t1
         IN  strip(SelectSeq(t2, LAMBDA c : c \notin Punctuation))

\* Length of the longest common prefix of a[i..ahi-1] and b[j..bhi-1].
RECURSIVE CommonLen(_, _, _, _, _, _)
CommonLen(a, i, ahi, b, j, bhi) ==
    IF i < ahi /\ j < bhi /\ a[i] = b[j]
    THEN 1 + CommonLen(a, i + 1, ahi, b, j + 1, bhi)
    ELSE 0

\* SequenceMatcher.find_longest_match(alo, ahi, blo, bhi) without junk: the
\* longest block, of those the one starting earliest in a, then earliest in
\* b; [i, j, k] with k = 0 when nothing matches.
FindLongestMatch(a, alo, ahi, b, blo, bhi) ==
    LET blocks == { <<i, j, CommonLen(a, i, ahi, b, j, bhi)>> :
                      i \in alo..(ahi - 1), j \in blo..(bhi - 1) }
        best == { x \in blocks : x[3] > 0 /\ \A y \in blocks :
                    \/ y[3] < x[3]
                    \/ (y[3] = x[3] /\ (x[1] < y[1] \/ (x[1] = y[1] /\ x[2] <= y[2]))) }
    IN  IF best = {} THEN [i |-> alo, j |-> blo, k |-> 0]
        ELSE LET x == CHOOSE x \in best : TRUE IN [i |-> x[1], j |-> x[2], k |-> x[3]]

\* The number of matched characters of get_matching_blocks: the longest
\* block, then the same to its left and to its right.
RECURSIVE MatchedChars(_, _, _, _, _, _)
MatchedChars(a, alo, ahi, b, blo, bhi) ==
    IF alo >= ahi \/ blo >= bhi THEN 0
    ELSE LET m == FindLongestMatch(a, alo, ahi, b, blo, bhi)
         IN  IF m.k = 0 THEN 0
             ELSE m.k + MatchedChars(a, alo, m.i, b, blo, m.j)
                      + MatchedChars(a, m.i + m.k, ahi, b, m.j + m.k, bhi)

\* SequenceMatcher(None, a, b).ratio() as the fraction num/den: 2*M/T, and
\* 1.0 when both strings are empty.
Ratio(a, b) ==
    IF Len(a) + Len(b) = 0 THEN [num |-> 1, den |-> 1]
    ELSE [num |-> 2 * MatchedChars(a, 1, Len(a) + 1, b, 1, Len(b) + 1),
          den |-> Len(a) + Len(b)]

\* fuzzy_match_score, lines 96-100.
fuzzy_match_score(title1, title2) == Ratio(normalize_title(title1), normalize_title(title2))

\* Comparisons of scores.
ScoreGt(x, y) == x.num * y.den > y.num * x.den
ScoreEq(x, y) == x.num * y.den = y.num * x.den
\* score >= 0.90
AtThreshold(x) == 10 * x.num >= 9 * x.den

\* ================================================== RatingMerger: the model
\* A value of the Year column: a str, a float, or NaN.
YearStr(s) == [kind |-> "str", s |-> s, n |-> 0]
YearFloat(n) == [kind |-> "float", s |-> <<>>, n |-> n]
YearNaN == [kind |-> "nan", s |-> <<>>, n |-> 0]

DigitText == <<"0", "1", "2", "3", "4", "5", "6", "7", "8", "9">>

\* str(n) of an int n >= 0.
RECURSIVE IntText(_)
IntText(n) == IF n < 10 THEN << DigitText[n + 1] >>
              ELSE IntText(n \div 10) \o << DigitText[(n % 10) + 1] >>

\* Lines 111-117: rating.get('Year', '') as a stripped string; a missing
\* column gives '', a missing cell (None) prints as 'None'.
RatingYearText(rating) ==
    LET raw == GetOr(rating, "Year", Some(YearStr(<<>>)))
    IN  IF IsNone(raw) THEN <<"N", "o", "n", "e">>
        ELSE IF Val(raw).kind = "float" THEN IntText(Val(raw).n)
        ELSE IF Val(raw).kind = "nan" THEN <<>>
        ELSE strip(Val(raw).s)

\* Line 110: rating.get('Title') or rating.get('Name', '').
RatingTitle(rating) ==
    IF TruthyStr(Get(rating, "Title")) THEN Get(rating, "Title")
    ELSE GetOr(rating, "Name", Some(<<>>))

\* Line 121: re.search(r'\((\d{4})\)', title): the first group, or None.
RECURSIVE YearInTitle(_, _)
YearInTitle(title, i) ==
    IF i + 5 > Len(title) THEN None
    ELSE IF /\ title[i] = "(" /\ title[i + 5] = ")"
            /\ \A k \in (i + 1)..(i + 4) : title[k] \in Digits
         THEN Some(SubSeq(title, i + 1, i + 4))
         ELSE YearInTitle(title, i + 1)

\* Lines 119-125: the year the entry is matched under.
EffectiveYear(rating) ==
    LET t == RatingTitle(rating)
        y == RatingYearText(rating)
        extracted == IF TruthyStr(t) THEN YearInTitle(Val(t), 1) ELSE None
    IN  IF ~IsNone(extracted) /\ (Len(y) = 0 \/ y = <<"n", "a", "n">>) THEN Val(extracted) ELSE y

\* Line 128: the cleaned title of the entry ("" for a missing one).
CleanRatingTitle(rating) ==
    IF TruthyStr(RatingTitle(rating)) THEN clean_title(Val(RatingTitle(rating))) ELSE <<>>

\* Line 137: str(movie.get('year', '')).strip()
MovieYearText(movie) ==
    LET y == GetOr(movie, "year", Some(<<>>))
    IN  IF IsNone(y) THEN <<"N", "o", "n", "e">> ELSE strip(Val(y))

\* Line 144: movie.get('title', ''), "" for null (normalize_title treats
\* both alike).
MovieTitleText(movie) ==
    LET t == GetOr(movie, "title", Some(<<>>)) IN IF IsNone(t) THEN <<>> ELSE Val(t)

\* Mutant: the loop of lines 136-149 without the year test.
RECURSIVE FindLoop_AnyYear(_, _, _, _, _)
FindLoop_AnyYear(movies, k, rating_title, rating_year, best) ==
    IF k > Len(movies) THEN best
    ELSE LET score == fuzzy_match_score(rating_title, MovieTitleText(movies[k]))
         IN  FindLoop_AnyYear(movies, k + 1, rating_title, rating_year,
                 IF ScoreGt(score, best.score)
                 THEN [match |-> k, score |-> score] ELSE best)

\* Lines 136-149: the loop over self.movies from position k on; best is
\* (best_match, best_score) so far, a movie being named by its position.
RECURSIVE FindLoop(_, _, _, _, _)
FindLoop(movies, k, rating_title, rating_year, best) ==
    IF k > Len(movies) THEN best
    ELSE IF MovieYearText(movies[k]) # rating_year
         THEN FindLoop(movies, k + 1, rating_title, rating_year, best)
         ELSE LET score == fuzzy_match_score(rating_title, MovieTitleText(movies[k]))
              IN  FindLoop(movies, k + 1, rating_title, rating_year,
                      IF ScoreGt(score, best.score)
                      THEN [match |-> k, score |-> score] ELSE best)

\* Lines 151-155: the best match is returned only at 0.90 or more.
Accept(best) ==
    IF AtThreshold(best.score) THEN best ELSE [match |-> 0, score |-> best.score]

\* find_matching_movie, lines 102-155: [match, score], match = 0 for None.
find_matching_movie(movies, rating) ==
    LET rating_year == EffectiveYear(rating)
        rating_title == CleanRatingTitle(rating)
    IN  IF Len(rating_title) = 0 \/ Len(rating_year) = 0 \/ rating_year = <<"n", "a", "n">>
        THEN NoFind
        ELSE Accept(FindLoop(movies, 1, rating_title, rating_year, NoFind))

\* sanitize_value, lines 157-164.
sanitize_value(value) ==
    IF IsNone(value) \/ Len(Val(value)) = 0 THEN None
    ELSE LET v == strip(Val(value))
         IN  IF lower(v) \in {<<>>, <<"n", "/", "a">>, <<"n", "o", "n", "e">>, <<"-">>} THEN None ELSE Some(v)

RatingFieldNames == {"ar", "br", "jr", "rating", "rating_notes"}

\* A dict with more keys set.
Update(d, more) == [k \in DOMAIN d \cup DOMAIN more |->
                      IF k \in DOMAIN more THEN more[k] ELSE d[k]]

\* Mutant: ratings a movie already has are kept.
WithRatings_KeepExisting(movie, rating) ==
    IF "ar" \in DOMAIN movie /\ ~IsNone(movie["ar"]) THEN movie
    ELSE Update(movie, [ar |-> sanitize_value(Get(rating, "AR")),
                        br |-> sanitize_value(Get(rating, "BR")),
                        jr |-> sanitize_value(Get(rating, "JR")),
                        rating |-> sanitize_value(Get(rating, "Rating"))])

\* Lines 180-183: the four ratings written onto the movie.
WithRatings(movie, rating) ==
    Update(movie, [ar |-> sanitize_value(Get(rating, "AR")),
                   br |-> sanitize_value(Get(rating, "BR")),
                   jr |-> sanitize_value(Get(rating, "JR")),
                   rating |-> sanitize_value(Get(rating, "Rating"))])

\* Line 184: rating.get('Rating Notes', ''); None for a missing cell.
NotesOf(rating) == GetOr(rating, "Rating Notes", Some(<<>>))

\* Mutant: the filled movie is built anew from its title and year.
Filled_Rebuilt(movie) ==
    IF "ar" \in DOMAIN movie THEN movie
    ELSE [title |-> movie["title"], year |-> movie["year"],
          ar |-> None, br |-> None, jr |-> None, rating |-> None,
          rating_notes |-> Some(<<>>)]

\* Lines 212-217: the empty rating fields of a movie without 'ar'.
Filled(movie) ==
    IF "ar" \in DOMAIN movie THEN movie
    ELSE Update(movie, [ar |-> None, br |-> None, jr |-> None, rating |-> None,
                        rating_notes |-> Some(<<>>)])

\* f"{confidence:.1%}": the score in tenths of a percent.
Permille(x) == (2000 * x.num + x.den) \div (2 * x.den)

\* ------------------------------------------------------------ the inputs
MaxMovies == 2
MaxRatings == 2

\* A movie of movies.json: title, year, external id, a metadata field and
\* the streaming options.
MergeMovie(title, year, id) ==
    [k \in {"title", "year", "imdb_id", "plot", "streaming"} |->
        CASE k = "title" -> Some(title)
          [] k = "year" -> Some(year)
          [] k = "imdb_id" -> Some(id)
          [] k = "plot" -> Some(<<"p">> \o id)
          [] OTHER -> Some(<< id >>)]

MovieAlien == MergeMovie(<<"A", "l", "i", "e", "n">>, <<"1", "9", "7", "9">>, <<"t", "t", "1">>)
\* A movie an earlier merge has rated.
MovieAliens ==
    Update(MergeMovie(<<"A", "l", "i", "e", "n", "s">>, <<"1", "9", "7", "9">>, <<"t", "t", "2">>),
           [ar |-> Some(<<"5">>), br |-> Some(<<"5">>), jr |-> None, rating |-> Some(<<"5">>),
            rating_notes |-> Some(<<"o", "l", "d">>)])
MovieAlien86 == MergeMovie(<<"A", "l", "i", "e", "n">>, <<"1", "9", "8", "6">>, <<"t", "t", "3">>)

MergeMovies == { MovieAlien, MovieAliens, MovieAlien86 }

\* A row of csv.DictReader with the seven columns; a cell the row is too
\* short for is None.
RatingRow(title, year, ar, br, jr, rating, notes) ==
    [k \in {"Title", "Year", "AR", "BR", "JR", "Rating", "Rating Notes"} |->
        CASE k = "Title" -> Some(title)
          [] k = "Year" -> Some(YearStr(year))
          [] k = "AR" -> ar
          [] k = "BR" -> br
          [] k = "JR" -> jr
          [] k = "Rating" -> rating
          [] OTHER -> notes]

RateAlien ==
    RatingRow(<<"A", "l", "i", "e", "n">>, <<"1", "9", "7", "9">>, Some(<<"8">>), Some(<<"7">>), Some(<<"9">>), Some(<<"8">>), Some(<<"o", "k">>))
\* Spaces after the commas of the CSV.
RateAliensPadded ==
    RatingRow(<<"A", "l", "i", "e", "n", "s">>, <<" ", "1", "9", "7", "9">>, Some(<<" ", "N", "/", "A">>), Some(<<>>), Some(<<" ", "6">>), Some(<<" ", "6">>),
              Some(<<" ", "f", "u", "n">>))
\* The year in the title and the Year cell empty.
RateTitleYear ==
    RatingRow(<<"A", "l", "i", "e", "n", " ", "(", "1", "9", "8", "6", ")">>, <<>>, Some(<<"4">>), Some(<<"4">>), Some(<<"4">>), Some(<<"4">>), Some(<<>>))
\* A near title of the same year below the threshold.
RateAlan ==
    RatingRow(<<"A", "l", "a", "n">>, <<"1", "9", "7", "9">>, Some(<<"1">>), Some(<<"1">>), Some(<<"1">>), Some(<<"1">>), Some(<<"n", "o">>))
\* A year no movie has.
RateAlien99 ==
    RatingRow(<<"A", "l", "i", "e", "n">>, <<"1", "9", "9", "9">>, Some(<<"2">>), Some(<<"2">>), Some(<<"2">>), Some(<<"2">>), Some(<<"n", "o">>))
\* A row that ends after the AR cell.
RateShort ==
    RatingRow(<<"A", "l", "i", "e", "n", "s">>, <<"1", "9", "7", "9">>, Some(<<"3">>), None, None, None, None)

MergeRatings ==
    { RateAlien, RateAliensPadded, RateTitleYear, RateAlan, RateAlien99, RateShort }

\* Lines 204-208: the item of the unmatched report; best_confidence is None
\* for "No match".
UnmatchedItem(rating, found) ==
    [title |-> RatingTitle(rating),
     year |-> RatingYearText(rating),
     best_confidence |-> IF ScoreGt(found.score, Zero)
                         THEN Some(Permille(found.score)) ELSE None]

\* Mutant: an entry without any score is left out of the report.
Report_SkipNoMatch(unmatched, rating, found) ==
    IF ScoreGt(found.score, Zero)
    THEN Append(unmatched, UnmatchedItem(rating, found)) ELSE unmatched

\* Line 204: unmatched.append(...)
Report(unmatched, rating, found) == Append(unmatched, UnmatchedItem(rating, found))

\* ---------------------------------------------------------------- merge()
\* Lines 175-208: one pass of the loop of merge() over the ratings.  An
\* accepted entry whose Rating Notes cell is None raises AttributeError at
\* line 184, after the four ratings have been written.
MergeEntry ==
    /\ m_pc = "merging" /\ m_idx <= Len(m_ratings)
    /\ LET rating == m_ratings[m_idx]
           found == find_matching_movie(m_movies, rating)
       IN  /\ m_last' = found
           /\ m_prev' = m_movies
           /\ IF found.match # 0 /\ AtThreshold(found.score)
              THEN IF IsNone(NotesOf(rating))
                   THEN /\ m_movies' = [m_movies EXCEPT ![found.match] =
                                           WithRatings(m_movies[found.match], rating)]
                        /\ m_pc' = "raised"
                        /\ UNCHANGED << m_idx, m_matched, m_unmatched, m_details >>
                   ELSE /\ m_movies' = [m_movies EXCEPT ![found.match] =
                              Update(WithRatings(m_movies[found.match], rating),
                                     [rating_notes |-> Some(strip(Val(NotesOf(rating))))])]
                        /\ m_matched' = m_matched + 1
                        /\ m_details' = Append(m_details,
                              [csv_title |-> RatingTitle(rating),
                               csv_year |-> Get(rating, "Year"),
                               matched_title |-> Get(m_movies[found.match], "title"),
                               matched_year |-> Get(m_movies[found.match], "year"),
                               confidence |-> Permille(found.score)])
                        /\ m_idx' = m_idx + 1
                        /\ UNCHANGED << m_pc, m_unmatched >>
              ELSE /\ m_unmatched' = Report(m_unmatched, rating, found)
                   /\ m_idx' = m_idx + 1
                   /\ UNCHANGED << m_movies, m_pc, m_matched, m_details >>
    /\ UNCHANGED << m_ratings, m_stats, m_before >>
    /\ MergeFrame

\* Lines 210-225: the empty rating fields and the statistics merge() returns.
MergeReturn ==
    /\ m_pc = "merging" /\ m_idx > Len(m_ratings)
    /\ m_prev' = m_movies
    /\ m_movies' = [i \in 1..Len(m_movies) |-> Filled(m_movies[i])]
    /\ m_stats' = Some([matched |-> m_matched, unmatched |-> m_unmatched,
                        match_details |-> m_details,
                        total_ratings |-> Len(m_ratings),
                        total_movies |-> Len(m_movies)])
    /\ m_pc' = "done"
    /\ UNCHANGED << m_ratings, m_idx, m_matched, m_unmatched, m_details, m_before, m_last >>
    /\ MergeFrame

InitMerge ==
    /\ m_movies \in SeqsUpTo(MergeMovies, MaxMovies)
    /\ m_ratings \in SeqsUpTo(MergeRatings, MaxRatings)
    /\ m_pc = "merging" /\ m_idx = 1
    /\ m_matched = 0 /\ m_unmatched = <<>> /\ m_details = <<>> /\ m_stats = None
    /\ m_before = m_movies /\ m_prev = m_movies /\ m_last = NoFind
    /\ OmdbIdle /\ StreamIdle /\ GenIdle /\ CleanIdle /\ PipeIdle
    /\ ScrapeIdle

NextMerge == MergeEntry \/ MergeReturn

SpecMerge == InitMerge /\ [][NextMerge]_vars

\* ================================================== RatingMerger: claims
\* An entry has been processed and merge() has not returned yet.
Processed == (m_pc = "merging" /\ m_idx > 1) \/ m_pc = "raised"

\* The entry processed last.
LastRating == m_ratings[IF m_pc = "raised" THEN m_idx ELSE m_idx - 1]

\* The movies the latest entry changed.
Touched == { i \in 1..Len(m_movies) : m_movies[i] # m_prev[i] }

\* The movies the latest entry concerns: the one find_matching_movie
\* returned and the ones merge() wrote to.
Concerned == Touched \cup (IF m_last.match # 0 THEN {m_last.match} ELSE {})

\* C18 as stated: A rating entry is never matched to a movie of another
\* year: the year of every movie find_matching_movie returns, and of every
\* movie merge() overwrites for the entry, equals the entry's Year exactly.
C18_Original ==
    Processed =>
        \A i \in Concerned :
            Get(m_movies[i], "year") = Some(Val(Get(LastRating, "Year")).s)

\* C18: the year of every movie find_matching_movie returns, and of every
\* movie merge() overwrites for the entry, stripped of surrounding
\* whitespace, equals the year the entry is matched under: its Year cell
\* stripped, or the year in parentheses in its title when the cell is empty.
C18_YearGate ==
    Processed =>
        \A i \in Concerned : MovieYearText(m_movies[i]) = EffectiveYear(LastRating)

\* An entry has been merged onto a movie while a movie of another year
\* carries a title that scores 1.0 against the entry's.
C18_Witness ==
    /\ Processed /\ m_last.match # 0 /\ Touched # {}
    /\ \E j \in 1..Len(m_movies) :
          /\ MovieYearText(m_movies[j]) # EffectiveYear(LastRating)
          /\ ScoreEq(fuzzy_match_score(CleanRatingTitle(LastRating),
                                       MovieTitleText(m_movies[j])),
                     [num |-> 1, den |-> 1])

\* ------------------------------------------- one rating against one movie
TheTerminator == <<"T", "h", "e", " ", "T", "e", "r", "m", "i", "n", "a", "t", "o", "r">>
TerminatorThe == <<"T", "e", "r", "m", "i", "n", "a", "t", "o", "r", ",", " ", "T", "h", "e">>

FuzzyTitles ==
    { TheTerminator, TerminatorThe, <<"T", "e", "r", "m", "i", "n", "a", "t", "o", "r">>, <<"t", "h", "e", " ", "t", "e", "r", "m", "i", "n", "a", "t", "o", "r", "!">>, <<"H", "e", "a", "t">>,
      <<"T", "h", "e", " ", "H", "e", "a", "t", " ", "(", "1", "9", "8", "4", ")">> }

\* merge() of one rating onto a list of one movie of the same year.
InitFuzzy ==
    /\ \E t1 \in FuzzyTitles : m_movies = << MergeMovie(t1, <<"1", "9", "8", "4">>, <<"t", "t", "4">>) >>
    /\ \E t2 \in FuzzyTitles :
          m_ratings = << RatingRow(t2, <<"1", "9", "8", "4">>, Some(<<"8">>), Some(<<"8">>), Some(<<"8">>),
                                   Some(<<"8">>), Some(<<"o", "k">>)) >>
    /\ m_pc = "merging" /\ m_idx = 1
    /\ m_matched = 0 /\ m_unmatched = <<>> /\ m_details = <<>> /\ m_stats = None
    /\ m_before = m_movies /\ m_prev = m_movies /\ m_last = NoFind
    /\ OmdbIdle /\ StreamIdle /\ GenIdle /\ CleanIdle /\ PipeIdle
    /\ ScrapeIdle

SpecFuzzy == InitFuzzy /\ [][NextMerge]_vars

\* The entry and the movie carry the two forms of the title, one each.
ArticleForms ==
    /\ Len(m_movies) = 1 /\ Len(m_ratings) = 1
    /\ { MovieTitleText(m_movies[1]), Val(RatingTitle(m_ratings[1])) }
          = { TheTerminator, TerminatorThe }

\* C19: "The Terminator" and "Terminator, The" with the same year normalize
\* to the same string and score 1.0, so a rating under one form is merged
\* onto a movie under the other.
C19_ArticleForms ==
    (ArticleForms /\ Processed) =>
        /\ normalize_title(TheTerminator) = normalize_title(TerminatorThe)
        /\ ScoreEq(fuzzy_match_score(TheTerminator, TerminatorThe), [num |-> 1, den |-> 1])
        /\ m_last.match = 1 /\ Touched = {1}

\* The similarity of the latest entry's title and movie i as it was before
\* the entry was processed.
ScoreOf(i) == fuzzy_match_score(Val(RatingTitle(LastRating)), MovieTitleText(m_prev[i]))

\* The movies of the latest entry's year.
SameYear == { i \in 1..Len(m_prev) : MovieYearText(m_prev[i]) = EffectiveYear(LastRating) }

\* merge() took the accepted branch for the latest entry.
Accepted == m_last.match # 0

\* Movie i carries the rating fields of the latest entry.
CarriesEntry(i) ==
    /\ RatingFieldNames \subseteq DOMAIN m_movies[i]
    /\ m_movies[i]["ar"] = sanitize_value(Get(LastRating, "AR"))
    /\ m_movies[i]["br"] = sanitize_value(Get(LastRating, "BR"))
    /\ m_movies[i]["jr"] = sanitize_value(Get(LastRating, "JR"))
    /\ m_movies[i]["rating"] = sanitize_value(Get(LastRating, "Rating"))
    /\ ~IsNone(NotesOf(LastRating))
    /\ m_movies[i]["rating_notes"] = Some(strip(Val(NotesOf(LastRating))))

\* C20: A rating entry is accepted iff the maximum similarity over the
\* movies of its year is at least 0.90; the movie it is merged onto attains
\* that maximum and its ar, br, jr, rating and rating_notes are overwritten
\* from the entry; an entry that is not accepted modifies no movie.
C20_Threshold ==
    Processed =>
        /\ Accepted <=> (\E i \in SameYear : AtThreshold(ScoreOf(i)))
        /\ Accepted =>
              /\ m_last.match \in SameYear
              /\ \A i \in SameYear : ~ScoreGt(ScoreOf(i), ScoreOf(m_last.match))
              /\ CarriesEntry(m_last.match)
              /\ Touched \subseteq {m_last.match}
        /\ ~Accepted => m_movies = m_prev

\* The positions of the ratings find_matching_movie accepts.
AcceptedEntries ==
    { k \in 1..Len(m_ratings) : find_matching_movie(m_before, m_ratings[k]).match # 0 }

\* The entries before position n that are not accepted, in input order.
RECURSIVE RejectedUpTo(_)
RejectedUpTo(n) ==
    IF n = 0 THEN <<>>
    ELSE IF n \in AcceptedEntries THEN RejectedUpTo(n - 1)
         ELSE Append(RejectedUpTo(n - 1), n)

\* The best score of entry k: the largest similarity over the movies of
\* its year, 0.0 when there is none.
BestScoreOf(k) ==
    LET same == { i \in 1..Len(m_before) :
                    MovieYearText(m_before[i]) = EffectiveYear(m_ratings[k]) }
        scores == { fuzzy_match_score(Val(RatingTitle(m_ratings[k])),
                                      MovieTitleText(m_before[i])) : i \in same }
    IN  IF scores = {} THEN Zero
        ELSE CHOOSE x \in scores : \A y \in scores : ~ScoreGt(y, x)

\* C21: merge() accounts for every rating entry exactly once: after merge()
\* the accepted entries are counted in matched, every other entry is listed
\* once, in input order, in the unmatched report with its best score (no
\* score when no movie of its year exists), and matched plus the length of
\* the report is total_ratings.
C21_EveryEntryOnce ==
    m_pc = "done" =>
        LET stats == Val(m_stats)
            rejected == RejectedUpTo(Len(m_ratings))
        IN  /\ stats.matched = Cardinality(AcceptedEntries)
            /\ Len(stats.match_details) = stats.matched
            /\ Len(stats.unmatched) = Len(rejected)
            /\ \A j \in 1..Len(rejected) :
                  /\ stats.unmatched[j].title = RatingTitle(m_ratings[rejected[j]])
                  /\ stats.unmatched[j].best_confidence =
                        IF ScoreGt(BestScoreOf(rejected[j]), Zero)
                        THEN Some(Permille(BestScoreOf(rejected[j]))) ELSE None
            /\ stats.matched + Len(stats.unmatched) = stats.total_ratings
            /\ stats.total_ratings = Len(m_ratings)

\* merge() has returned after a first entry that scored below the
\* threshold and a later entry that was accepted.
C21_Witness ==
    /\ m_pc = "done" /\ Len(m_ratings) >= 2
    /\ Val(m_stats).matched >= 1
    /\ 1 \notin AcceptedEntries
    /\ \E j \in 1..Len(Val(m_stats).unmatched) :
          Val(m_stats).unmatched[j].best_confidence # None

\* -------------------------------- movies that carry some rating fields
\* A movie of movies.json with the ar field only.
MovieArOnly == Update(MergeMovie(<<"H", "e", "a", "t">>, <<"1", "9", "9", "5">>, <<"t", "t", "5">>), [ar |-> Some(<<"7">>)])
\* A movie with every rating field but ar.
MovieNoAr ==
    Update(MergeMovie(<<"R", "a", "n">>, <<"1", "9", "8", "5">>, <<"t", "t", "6">>),
           [br |-> Some(<<"6">>), jr |-> Some(<<"6">>), rating |-> Some(<<"6">>),
            rating_notes |-> Some(<<"k", "e", "p", "t">>)])

FieldMovies == { MovieAlien, MovieAliens, MovieArOnly, MovieNoAr }

InitFields ==
    /\ m_movies \in SeqsUpTo(FieldMovies, MaxMovies)
    /\ m_ratings \in SeqsUpTo({ RateAlien, RateAlan }, MaxRatings)
    /\ m_pc = "merging" /\ m_idx = 1
    /\ m_matched = 0 /\ m_unmatched = <<>> /\ m_details = <<>> /\ m_stats = None
    /\ m_before = m_movies /\ m_prev = m_movies /\ m_last = NoFind
    /\ OmdbIdle /\ StreamIdle /\ GenIdle /\ CleanIdle /\ PipeIdle
    /\ ScrapeIdle

SpecFields == InitFields /\ [][NextMerge]_vars

\* C22: After merge() returns, every movie carries all five rating fields
\* ar, br, jr, rating and rating_notes, whatever subset of them it carried
\* before the merge and whatever the ratings.
C22_UniformFields ==
    m_pc = "done" =>
        \A i \in 1..Len(m_movies) : RatingFieldNames \subseteq DOMAIN m_movies[i]

\* ------------------------------------------------ the forms of the Year
\* The text a whole-number float has in a CSV file: str(1979.0) is '1979.0'.
FloatText(n) == IntText(n) \o <<".", "0">>

\* The row of the end-to-end scenario, without a Rating Notes column, under
\* a given Year value.
ScenarioRow(year) ==
    [k \in {"Title", "Year", "AR", "BR", "JR", "Rating"} |->
        CASE k = "Title" -> Some(<<"A", "l", "i", "e", "n">>)
          [] k = "Year" -> Some(year)
          [] k = "AR" -> Some(<<"8">>)
          [] k = "BR" -> Some(<<"7">>)
          [] k = "JR" -> Some(<<"9">>)
          [] OTHER -> Some(<<"8">>)]

ScenarioYears == {1979, 1986}

\* A year as a float, as the text of that float, as the 4-digit string,
\* padded, and NaN.
YearForms ==
    { YearFloat(n) : n \in ScenarioYears }
    \cup { YearStr(FloatText(n)) : n \in ScenarioYears }
    \cup { YearStr(IntText(n)) : n \in ScenarioYears }
    \cup { YearStr(<<" ", "1", "9", "7", "9", " ">>), YearNaN }

InitYears ==
    /\ m_movies \in SeqsUpTo({ MovieAlien, MovieAlien86 }, MaxMovies)
    /\ m_ratings \in SeqsUpTo({ ScenarioRow(y) : y \in YearForms }, MaxRatings)
    /\ m_pc = "merging" /\ m_idx = 1
    /\ m_matched = 0 /\ m_unmatched = <<>> /\ m_details = <<>> /\ m_stats = None
    /\ m_before = m_movies /\ m_prev = m_movies /\ m_last = NoFind
    /\ OmdbIdle /\ StreamIdle /\ GenIdle /\ CleanIdle /\ PipeIdle
    /\ ScrapeIdle

SpecYears == InitYears /\ [][NextMerge]_vars

\* The latest entry has been merged onto a movie "Alien" of year n with
\* score 1.0 and the ratings of the scenario.
MergedOntoAlien(n) ==
    /\ m_last.match # 0
    /\ ScoreEq(m_last.score, [num |-> 1, den |-> 1])
    /\ Get(m_prev[m_last.match], "title") = Some(<<"A", "l", "i", "e", "n">>)
    /\ Get(m_prev[m_last.match], "year") = Some(IntText(n))
    /\ Get(m_movies[m_last.match], "ar") = Some(<<"8">>)
    /\ Get(m_movies[m_last.match], "br") = Some(<<"7">>)
    /\ Get(m_movies[m_last.match], "jr") = Some(<<"9">>)
    /\ Get(m_movies[m_last.match], "rating") = Some(<<"8">>)

\* C23: The row {Title: "Alien", Year: 1979.0, AR: "8", BR: "7", JR: "9",
\* Rating: "8"} merges onto the movie "Alien"/"1979" with score 1.0 and sets
\* the four ratings; in general a year given as a whole-number float or as
\* the CSV text of that float is the same year as the 4-digit string.
C23_FloatYear ==
    Processed =>
        \A n \in ScenarioYears :
            (/\ Val(Get(LastRating, "Year")) \in { YearFloat(n), YearStr(FloatText(n)) }
             /\ \E i \in 1..Len(m_prev) :
                   /\ MovieTitleText(m_prev[i]) = <<"A", "l", "i", "e", "n">>
                   /\ Get(m_prev[i], "year") = Some(IntText(n)))
            => MergedOntoAlien(n)

\* The entries find_matching_movie accepts for movie i.
EntriesFor(i) ==
    { k \in 1..Len(m_ratings) : find_matching_movie(m_before, m_ratings[k]).match = i }

\* The largest element of a non-empty set of positions.
Last(K) == CHOOSE k \in K : \A j \in K : j <= k

\* The five rating fields of a movie are those of a rating entry.
FieldsFrom(movie, rating) ==
    /\ RatingFieldNames \subseteq DOMAIN movie
    /\ movie["ar"] = sanitize_value(Get(rating, "AR"))
    /\ movie["br"] = sanitize_value(Get(rating, "BR"))
    /\ movie["jr"] = sanitize_value(Get(rating, "JR"))
    /\ movie["rating"] = sanitize_value(Get(rating, "Rating"))
    /\ ~IsNone(NotesOf(rating))
    /\ movie["rating_notes"] = Some(strip(Val(NotesOf(rating))))

\* C27: When two or more rating entries are accepted for the same movie,
\* after merge() the movie's rating fields are those of the last such entry
\* in input order, and each of those entries is counted as matched.
C27_LastWriteWins ==
    m_pc = "done" =>
        /\ \A i \in 1..Len(m_movies) :
              Cardinality(EntriesFor(i)) >= 2 =>
                  FieldsFrom(m_movies[i], m_ratings[Last(EntriesFor(i))])
        /\ Val(m_stats).matched
              = Cardinality(UNION { EntriesFor(i) : i \in 1..Len(m_movies) })

\* merge() has returned after two entries with different ratings were
\* accepted for one movie.
C27_Witness ==
    /\ m_pc = "done"
    /\ \E i \in 1..Len(m_movies) :
          /\ EntriesFor(i) = {1, 2}
          /\ sanitize_value(Get(m_ratings[1], "AR")) # sanitize_value(Get(m_ratings[2], "AR"))
          /\ Val(m_stats).matched = 2

\* Movie `after` is movie `before` but for the five rating fields.
SameButRatings(before, after) ==
    /\ DOMAIN before \subseteq DOMAIN after
    /\ DOMAIN after \subseteq DOMAIN before \cup RatingFieldNames
    /\ \A k \in DOMAIN before \ RatingFieldNames : after[k] = before[k]

\* The movies are those merge() was called with, in number and order, but
\* for their rating fields.
MoviesKept ==
    /\ Len(m_movies) = Len(m_before)
    /\ \A i \in 1..Len(m_movies) : SameButRatings(m_before[i], m_movies[i])

\* C30: merge() changes nothing but the five rating fields of movies: the
\* number and order of the movies, every movie's title, year, external id,
\* metadata and streaming options, and the ratings list, are the same after
\* every step of merge() as before it.
C30_OnlyRatingFields ==
    [][MoviesKept' /\ m_ratings' = m_ratings]_vars

\* merge() has returned, having written the ratings of an entry onto one
\* movie and the empty fields onto another.
C30_Witness ==
    /\ m_pc = "done" /\ Val(m_stats).matched >= 1
    /\ \E i, j \in 1..Len(m_movies) :
          /\ m_movies[i] # m_before[i]
          /\ EntriesFor(i) # {}
          /\ EntriesFor(j) = {} /\ m_movies[j] # m_before[j]

\* ============================================ MaximumFunScraper: the model
\* Lines 20-21.
MAX_RETRIES == 3
RETRY_DELAY == 2

\* Largest max_pages of a run.
MaxPages == 2

\* What one fetch of a page can give: a transport or HTTP error
\* (RequestException), a text of fewer than 100 characters (ValueError), a
\* page without episode containers, a page with an episode.
FetchOutcomes == {"err", "short", "empty", "ok"}
Failed(outcome) == outcome \in {"err", "short"}

\* Mutant: one more retry is allowed.
MayRetry_OneMore(retry_count) == retry_count <= MAX_RETRIES

\* Line 120: retry_count < self.MAX_RETRIES
MayRetry(retry_count) == retry_count < MAX_RETRIES

\* Line 124: the delay slept before the retry.
Backoff(retry_count) == RETRY_DELAY * (retry_count + 1)

\* scrape_episodes lines 46-49: the loop starts at page 1, or is over at once.
ScrapeEpisodes ==
    /\ x_pc = "ready"
    /\ IF x_max_pages >= 1
       THEN x_pc' = "fetch" /\ x_page' = 1
       ELSE x_pc' = "returned" /\ x_page' = x_page
    /\ UNCHANGED << x_max_pages, x_retry, x_got, x_episodes, x_log, x_sleeps >>
    /\ ScrapeFrame

\* One call of _scrape_page(page, retry_count), lines 80-128, up to its
\* return, its recursive call or its raise.
ScrapePage ==
    /\ x_pc = "fetch"
    /\ \E outcome \in FetchOutcomes :
         /\ x_log' = Append(x_log, outcome)
         /\ IF Failed(outcome)
            THEN IF MayRetry(x_retry)
                 THEN /\ x_sleeps' = Append(x_sleeps, Backoff(x_retry))
                      /\ x_retry' = x_retry + 1
                      /\ UNCHANGED << x_pc, x_got >>
                 ELSE /\ x_pc' = "raised"
                      /\ UNCHANGED << x_retry, x_sleeps, x_got >>
            ELSE /\ x_got' = IF outcome = "ok" THEN << [page |-> x_page] >> ELSE <<>>
                 /\ x_pc' = "got"
                 /\ UNCHANGED << x_retry, x_sleeps >>
    /\ UNCHANGED << x_max_pages, x_page, x_episodes >>
    /\ ScrapeFrame

\* scrape_episodes lines 54-67: an empty page ends the pagination, any other
\* is added and the next page, if any, is fetched with retry_count 0.
PageDone ==
    /\ x_pc = "got"
    /\ IF Len(x_got) = 0
       THEN /\ x_pc' = "returned"
            /\ UNCHANGED << x_page, x_episodes, x_retry, x_log, x_sleeps >>
       ELSE /\ x_episodes' = x_episodes \o x_got
            /\ IF x_page < x_max_pages
               THEN /\ x_pc' = "fetch" /\ x_page' = x_page + 1
                    /\ x_retry' = 0 /\ x_log' = <<>> /\ x_sleeps' = <<>>
               ELSE /\ x_pc' = "returned"
                    /\ UNCHANGED << x_page, x_retry, x_log, x_sleeps >>
    /\ UNCHANGED << x_max_pages, x_got >>
    /\ ScrapeFrame

InitScrape ==
    /\ x_max_pages \in 0..MaxPages
    /\ x_pc = "ready" /\ x_page = 0 /\ x_retry = 0
    /\ x_got = <<>> /\ x_episodes = <<>> /\ x_log = <<>> /\ x_sleeps = <<>>
    /\ OmdbIdle /\ StreamIdle /\ GenIdle /\ CleanIdle /\ PipeIdle /\ MergeIdle

NextScrape == ScrapeEpisodes \/ ScrapePage \/ PageDone

SpecScrape == InitScrape /\ [][NextScrape]_vars

\* The scraper runs on one thread: every fetch has a timeout and every sleep
\* is finite, so a step that can be taken is taken.
SpecScrapeLive == SpecScrape /\ WF_vars(NextScrape)

\* ------------------------------------------------------ claims: scraper
\* The attempts on the current page follow the retry rule.
RetriesBounded ==
    /\ Len(x_log) <= MAX_RETRIES + 1
    /\ x_retry <= MAX_RETRIES
    /\ \A i \in 1..(Len(x_log) - 1) : Failed(x_log[i])
    /\ x_pc = "fetch" => (Len(x_log) = x_retry /\ Len(x_sleeps) = x_retry)
    /\ \A i \in 1..Len(x_sleeps) : x_sleeps[i] = RETRY_DELAY * i
    /\ x_pc = "got" => ~Failed(x_log[Len(x_log)])
    /\ x_pc = "raised" =>
          (Len(x_log) = MAX_RETRIES + 1 /\ \A i \in 1..Len(x_log) : Failed(x_log[i]))

\* C28: _scrape_page retries a page whose fetch fails by transport error or
\* gives a too-short response, with a growing delay, at most MAX_RETRIES
\* times, so at most 4 attempts per page; a successful attempt ends the
\* retries; after the last failed attempt the error is raised; and
\* scrape_episodes always terminates.
C28_BoundedRetries ==
    /\ []RetriesBounded
    /\ <>(x_pc \in {"returned", "raised"})

\* C28 witness: on the second page three failed attempts of both kinds were
\* retried with delays 2, 4, 6 and the fourth attempt succeeded.
C28_Witness ==
    /\ x_pc = "returned" /\ x_page = 2 /\ Len(x_episodes) = 2
    /\ Len(x_log) = 4 /\ x_log[4] = "ok"
    /\ "err" \in { x_log[i] : i \in 1..3 } /\ "short" \in { x_log[i] : i \in 1..3 }
    /\ x_sleeps = << 2, 4, 6 >>
====
